---- MODULE Spec2Model ----
(***************************************************************************)
(* Model of the PM2.5 early-warning core of CLEAR25:                       *)
(*   webapp/dashboard/services/evaluate.py  (three-rule detection)         *)
(*   webapp/dashboard/services/waqi.py      (AQI conversion, matching)     *)
(*   webapp/dashboard/services/data.py      (station catalog and cache)    *)
(* Each component has its own specification over its own variables; the    *)
(* variables of the other components stay at their idle values.            *)
(*                                                                         *)
(* Numbers.  The code computes with floats; the model computes with exact  *)
(* scaled integers:                                                        *)
(*   readings            whole ug/m3                                       *)
(*   slope, intercept    hundredths  (slope100, intercept100)              *)
(*   R                   tenths      (R10), so R*R is in hundredths        *)
(*   unrounded pred      hundredths  (slope100 * pm + intercept100)        *)
(*   "predicted"         tenths      (round(pred, 1))                      *)
(*   weights             hundredths  (max(R*R, 0.1) -> max(R10*R10, 10))   *)
(* The weighted prediction is the exact fraction num/den (in tenths).      *)
(* Fields of a result that no decision reads (dir, level_hex,              *)
(* level_text_color, health, lead) are left out of the records.            *)
(***************************************************************************)
EXTENDS Integers, Sequences, FiniteSets, TLC

VARIABLES stations, readings, previous_readings, result, demo_city, pc,
          level_in, level_out,
          aqi_in, aqi_out,
          fetch_stations, fetch_responses, fetch_out,
          workbook, station_cache, caller, loads,
          device_tokens, push_last, push_invalid, push_ops,
          api_key, request, clock, allowed_in, started

(* pc is "call" before the operation of a specification and "done" after *)
evalVars == <<stations, readings, previous_readings, result, demo_city>>
levelVars == <<level_in, level_out>>
aqiVars == <<aqi_in, aqi_out>>
fetchVars == <<fetch_stations, fetch_responses, fetch_out>>
catalogVars == <<workbook, station_cache, caller, loads>>
pushVars == <<device_tokens, push_last, push_invalid, push_ops>>
rateVars == <<api_key, request, clock, allowed_in, started>>

vars == <<pc, evalVars, levelVars, aqiVars, fetchVars, catalogVars, pushVars, rateVars>>

----------------------------------------------------------------------------
(* Bounds of the model *)

MaxStations == 3

(* get_alert_level is called on -MaxLevel10 .. MaxLevel10 tenths of a ug/m3 *)
MaxLevel10 == 1300

(* _aqi_to_ugm3 is called on the integers -MaxAqi .. MaxAqi *)
MaxAqi == 505

(* fetch_latest_pm25: the longest station list and the longest "data" list *)
(* of one response                                                         *)
MaxFetchStations == 3
MaxEntries == 2

(* The station catalog: the most data rows of a workbook that is drawn    *)
(* freely, and the number of concurrent callers of the loaders            *)
MaxRows == 2
MaxCallers == 2

(* Push notifications: the number of registrations, unregistrations and   *)
(* alerts of one run                                                      *)
MaxPushOps == 4

(* Rate limiting: the concurrent requests of one API key, the requests of *)
(* one run, and the last tick of the clock                                *)
MaxClients == 2
MaxRequests == 3
MaxClock == 2

(* Python's None *)
None == "None"

(* The station records evaluate() is called with.  Two records share the  *)
(* sensor id 60106: the same sensor serves Toronto and Montreal.           *)
StationPool ==
  { [id |-> "60106", city_name |-> "Sudbury", distance |-> 300, tier |-> 1,
     R10 |-> 9, slope100 |-> 100, intercept100 |-> 0, target_city |-> "Toronto"],
    [id |-> "66201", city_name |-> "Thunder Bay", distance |-> 700, tier |-> 2,
     R10 |-> 0, slope100 |-> 49, intercept100 |-> 36, target_city |-> "Toronto"],
    [id |-> "65701", city_name |-> "Parry Sound", distance |-> 400, tier |-> 2,
     R10 |-> 9, slope100 |-> 25, intercept100 |-> 0, target_city |-> "Toronto"],
    [id |-> "61201", city_name |-> "North Bay", distance |-> 600, tier |-> 1,
     R10 |-> 0 - 5, slope100 |-> 50, intercept100 |-> 0, target_city |-> "Toronto"],
    [id |-> "60106", city_name |-> "Sudbury", distance |-> 100, tier |-> 2,
     R10 |-> 2, slope100 |-> 150, intercept100 |-> 0, target_city |-> "Montreal"] }

(* Raw readings: below every threshold, at each threshold, and twice the  *)
(* highest threshold.                                                     *)
ReadingValues == {10, 20, 35, 40, 80}

(* Previous-hour readings: below and at RULE2_INTERMEDIATE. *)
PreviousValues == {10, 20}

(* The ids a previous-hour map may hold. *)
PreviousIds == {"60106", "61201"}

----------------------------------------------------------------------------
(* Constants of evaluate.py *)

RULE1_TRIGGER == 40
RULE2_DISTANT_TRIGGER == 35
RULE2_INTERMEDIATE == 20
RULE3_CORRIDOR_TRIGGER == 40

(* ALERT_LEVELS: the bands in table order, "min" in ug/m3. *)
ALERT_LEVELS ==
  << [name |-> "LOW",       min |-> 0,   max |-> 20],
     [name |-> "MODERATE",  min |-> 20,  max |-> 60],
     [name |-> "HIGH",      min |-> 60,  max |-> 80],
     [name |-> "VERY HIGH", min |-> 80,  max |-> 120],
     [name |-> "EXTREME",   min |-> 120, max |-> 1000000000] >>

----------------------------------------------------------------------------
(* Helpers *)

RECURSIVE MaxSeq(_, _)
(* max(iterable, default=d) *)
MaxSeq(s, d) ==
  IF s = <<>> THEN d
  ELSE LET m == MaxSeq(Tail(s), Head(s))
       IN  IF Head(s) >= m THEN Head(s) ELSE m

(* round(num/den, 0) to an integer, ties to even; den > 0. *)
RoundDiv(num, den) ==
  LET q == num \div den
      r == num % den
  IN  IF 2 * r > den THEN q + 1
      ELSE IF 2 * r < den THEN q
      ELSE IF q % 2 = 0 THEN q ELSE q + 1

(* Variant: the lower bound of a band is exclusive *)
get_alert_level_Exclusive(num, den) ==
  LET hits == { i \in 1..Len(ALERT_LEVELS) : num > ALERT_LEVELS[i].min * den }
  IN  IF hits = {} THEN ALERT_LEVELS[1]
      ELSE ALERT_LEVELS[CHOOSE i \in hits : \A j \in hits : j <= i]

(* get_alert_level(pm25) for pm25 = num/den ug/m3, den > 0: the last band  *)
(* of the table whose min is <= pm25, else the first band.                 *)
get_alert_level(num, den) ==
  LET hits == { i \in 1..Len(ALERT_LEVELS) : num >= ALERT_LEVELS[i].min * den }
  IN  IF hits = {} THEN ALERT_LEVELS[1]
      ELSE ALERT_LEVELS[CHOOSE i \in hits : \A j \in hits : j <= i]

----------------------------------------------------------------------------
(* Per-station results *)

(* The unrounded prediction slope * pm + intercept, in hundredths. *)
Pred100(st, pm) == st.slope100 * pm + st.intercept100

(* The dict appended to results for one station with reading pm. *)
StationResult(st, pm) ==
  [ station     |-> st.city_name,
    id          |-> st.id,
    dist        |-> st.distance,
    tier        |-> st.tier,
    R10         |-> st.R10,
    pm25        |-> pm,
    predicted   |-> RoundDiv(Pred100(st, pm), 10),
    level_name  |-> get_alert_level(Pred100(st, pm), 100).name,
    target_city |-> st.target_city ]

(* "if sid not in readings: continue" *)
HasReading(st, rd) == st.id \in DOMAIN rd

RECURSIVE BuildResults_ZeroDefault(_, _)
(* Variant: a station without a reading is emitted with readings.get(sid, 0) *)
BuildResults_ZeroDefault(sts, rd) ==
  IF sts = <<>> THEN <<>>
  ELSE <<StationResult(Head(sts), IF HasReading(Head(sts), rd) THEN rd[Head(sts).id] ELSE 0)>>
         \o BuildResults_ZeroDefault(Tail(sts), rd)

RECURSIVE BuildResults(_, _)
(* The loop over stations: one result per station with a reading, in order *)
BuildResults(sts, rd) ==
  IF sts = <<>> THEN <<>>
  ELSE IF HasReading(Head(sts), rd)
       THEN <<StationResult(Head(sts), rd[Head(sts).id])>> \o BuildResults(Tail(sts), rd)
       ELSE BuildResults(Tail(sts), rd)

(* Place r in a list sorted by predicted descending, after every element   *)
(* whose predicted is >= r's (list.sort is stable, also with reverse=True) *)
RECURSIVE InsertDesc_TiesFirst(_, _)
(* Variant: a row goes before the rows of equal predicted value *)
InsertDesc_TiesFirst(r, sorted) ==
  IF sorted = <<>> THEN <<r>>
  ELSE IF Head(sorted).predicted > r.predicted
       THEN <<Head(sorted)>> \o InsertDesc_TiesFirst(r, Tail(sorted))
       ELSE <<r>> \o sorted

RECURSIVE InsertDesc(_, _)
InsertDesc(r, sorted) ==
  IF sorted = <<>> THEN <<r>>
  ELSE IF Head(sorted).predicted >= r.predicted
       THEN <<Head(sorted)>> \o InsertDesc(r, Tail(sorted))
       ELSE <<r>> \o sorted

RECURSIVE SortFrom(_, _)
SortFrom(rs, sorted) ==
  IF rs = <<>> THEN sorted
  ELSE SortFrom(Tail(rs), InsertDesc(Head(rs), sorted))

(* Variant: the results are left in station order *)
SortResults_Unsorted(rs) == rs

(* results.sort(key=lambda x: x["predicted"], reverse=True) *)
SortResults(rs) == SortFrom(rs, <<>>)

----------------------------------------------------------------------------
(* City aggregation *)

(* Variant: no minimum weight *)
Weight_NoFloor(r) == r.R10 * r.R10

(* weight = max(R * R, 0.1), in hundredths *)
Weight(r) == IF r.R10 * r.R10 >= 10 THEN r.R10 * r.R10 ELSE 10

RECURSIVE WeightedSum(_)
WeightedSum(rows) ==
  IF rows = <<>> THEN 0
  ELSE Weight(Head(rows)) * Head(rows).predicted + WeightedSum(Tail(rows))

RECURSIVE WeightTotal(_)
WeightTotal(rows) ==
  IF rows = <<>> THEN 0 ELSE Weight(Head(rows)) + WeightTotal(Tail(rows))

RECURSIVE PredictedSum(_)
PredictedSum(rows) ==
  IF rows = <<>> THEN 0 ELSE Head(rows).predicted + PredictedSum(Tail(rows))

(* Variant: the weighted sum is not divided by the total weight *)
weighted_prediction_NotNormalised(city_rows) ==
  IF WeightTotal(city_rows) > 0
  THEN [num |-> WeightedSum(city_rows), den |-> 100]
  ELSE IF city_rows # <<>>
       THEN [num |-> PredictedSum(city_rows), den |-> Len(city_rows)]
       ELSE [num |-> 0, den |-> 1]

(* _weighted_prediction(city_rows): the fraction num/den, in tenths of a   *)
(* ug/m3.  With no weight the simple average, and 0 for no rows.           *)
weighted_prediction(city_rows) ==
  IF WeightTotal(city_rows) > 0
  THEN [num |-> WeightedSum(city_rows), den |-> WeightTotal(city_rows)]
  ELSE IF city_rows # <<>>
       THEN [num |-> PredictedSum(city_rows), den |-> Len(city_rows)]
       ELSE [num |-> 0, den |-> 1]

RECURSIVE PredictedOf(_)
PredictedOf(rows) ==
  IF rows = <<>> THEN <<>> ELSE <<Head(rows).predicted>> \o PredictedOf(Tail(rows))

(* max((r["predicted"] for r in city_rows), default=0) *)
max_predicted(city_rows) == MaxSeq(PredictedOf(city_rows), 0)

----------------------------------------------------------------------------
(* Station partitions of one city *)

IsRegional(r) == r.tier = 1 /\ r.dist <= 600
IsDistant(r) == r.dist > 600
(* Variant: a Corridor station at any distance *)
IsCorridor_NoDistance(r) == r.tier >= 2

IsCorridor(r) == r.tier >= 2 /\ r.dist <= 400
IsIntermediate(r) == 200 <= r.dist /\ r.dist <= 600

regional_stations(city_rows) == SelectSeq(city_rows, IsRegional)
distant_stations(city_rows) == SelectSeq(city_rows, IsDistant)
corridor_stations(city_rows) == SelectSeq(city_rows, IsCorridor)

(* The empty dict *)
EmptyDict == <<>>

(* "if previous_readings is None: previous_readings = {}".  The argument   *)
(* is [none |-> TRUE] when it is omitted or None, else [none |-> FALSE,    *)
(* dict |-> the map].                                                      *)
PreviousOrEmpty(prev) == IF prev.none THEN EmptyDict ELSE prev.dict

(* Variant: an absent id counts as the confirmation threshold *)
PreviousGet_Default(prev, id) ==
  IF id \in DOMAIN PreviousOrEmpty(prev) THEN PreviousOrEmpty(prev)[id]
  ELSE RULE2_INTERMEDIATE

(* previous_readings.get(id, 0) *)
PreviousGet(prev, id) ==
  IF id \in DOMAIN PreviousOrEmpty(prev) THEN PreviousOrEmpty(prev)[id] ELSE 0

(* "and previous_readings": a non-empty dict *)
PreviousTruthy(prev) == DOMAIN PreviousOrEmpty(prev) # {}

----------------------------------------------------------------------------
(* The three rules *)

(* Variant: strictly above the trigger *)
Rule1Hit_Strict(r) == r.pm25 > RULE1_TRIGGER

Rule1Hit(r) == r.pm25 >= RULE1_TRIGGER
Rule2DistantHit(r) == r.pm25 >= RULE2_DISTANT_TRIGGER
Rule3Hit(r) == r.pm25 >= RULE3_CORRIDOR_TRIGGER

(* Variant: the loop does not break, every hit is appended *)
Rule1_NoBreak(city_rows) ==
  LET hits == SelectSeq(regional_stations(city_rows), Rule1Hit)
  IN  IF hits # <<>>
      THEN [alert_triggered |-> TRUE, trigger_rule |-> "rule1",
            trigger_stations |-> [k \in 1..Len(hits) |-> hits[k].station]]
      ELSE [alert_triggered |-> FALSE, trigger_rule |-> None,
            trigger_stations |-> <<>>]

(* Rule 1: the loop over regional_stations, break at the first hit *)
Rule1(city_rows) ==
  LET hits == SelectSeq(regional_stations(city_rows), Rule1Hit)
  IN  IF hits # <<>>
      THEN [alert_triggered |-> TRUE, trigger_rule |-> "rule1",
            trigger_stations |-> <<Head(hits).station>>]
      ELSE [alert_triggered |-> FALSE, trigger_rule |-> None,
            trigger_stations |-> <<>>]

RECURSIVE StationNames(_)
StationNames(rows) ==
  IF rows = <<>> THEN <<>> ELSE <<Head(rows).station>> \o StationNames(Tail(rows))

(* Variant: every qualifying station is reported *)
Rule2_AllNames(city_rows, prev, before) ==
  IF before.alert_triggered \/ ~PreviousTruthy(prev) THEN before
  ELSE
    LET Confirmed(r) == /\ IsIntermediate(r)
                        /\ r.pm25 >= RULE2_INTERMEDIATE
                        /\ PreviousGet(prev, r.id) >= RULE2_INTERMEDIATE
        distant_triggers == SelectSeq(distant_stations(city_rows), Rule2DistantHit)
        intermediate_confirmed == SelectSeq(city_rows, Confirmed)
    IN  IF distant_triggers # <<>> /\ intermediate_confirmed # <<>>
        THEN [alert_triggered |-> TRUE, trigger_rule |-> "rule2",
              trigger_stations |-> StationNames(distant_triggers)
                                     \o StationNames(intermediate_confirmed)]
        ELSE before

(* Rule 2: only "if not alert_triggered and previous_readings" *)
Rule2(city_rows, prev, before) ==
  IF before.alert_triggered \/ ~PreviousTruthy(prev) THEN before
  ELSE
    LET Confirmed(r) == /\ IsIntermediate(r)
                        /\ r.pm25 >= RULE2_INTERMEDIATE
                        /\ PreviousGet(prev, r.id) >= RULE2_INTERMEDIATE
        distant_triggers == SelectSeq(distant_stations(city_rows), Rule2DistantHit)
        intermediate_confirmed == SelectSeq(city_rows, Confirmed)
    IN  IF distant_triggers # <<>> /\ intermediate_confirmed # <<>>
        THEN [alert_triggered |-> TRUE, trigger_rule |-> "rule2",
              trigger_stations |-> << Head(distant_triggers).station,
                                      Head(intermediate_confirmed).station >>]
        ELSE before

(* Variant: Rule 3 is evaluated also after a rule fired *)
Rule3_NoGuard(city_rows, before) ==
  LET hits == SelectSeq(corridor_stations(city_rows), Rule3Hit)
  IN  IF hits # <<>>
      THEN [alert_triggered |-> TRUE, trigger_rule |-> "rule3",
            trigger_stations |-> before.trigger_stations \o <<Head(hits).station>>]
      ELSE before

(* Rule 3: only "if not alert_triggered" *)
Rule3(city_rows, before) ==
  IF before.alert_triggered THEN before
  ELSE
    LET hits == SelectSeq(corridor_stations(city_rows), Rule3Hit)
    IN  IF hits # <<>>
        THEN [alert_triggered |-> TRUE, trigger_rule |-> "rule3",
              trigger_stations |-> before.trigger_stations \o <<Head(hits).station>>]
        ELSE before

(* alert_triggered, trigger_rule, trigger_stations after the three rules *)
RuleDecision(city_rows, prev) ==
  Rule3(city_rows, Rule2(city_rows, prev, Rule1(city_rows)))

(* Variant: a fired rule is surfaced at every level *)
Surfaced_Always(lvl) == TRUE

(* "if lvl["name"] != "LOW"" for lvl = get_alert_level(alert_prediction) *)
Surfaced(lvl) == lvl.name # "LOW"

(* Variant: the default entry keeps what the suppressed rule collected *)
CityAlert_KeepTriggers(city_rows, prev) ==
  LET weighted_pred == weighted_prediction(city_rows)
      decision == RuleDecision(city_rows, prev)
      lvl == get_alert_level(weighted_pred.num, weighted_pred.den * 10)
  IN  [ alert            |-> decision.alert_triggered /\ Surfaced(lvl),
        rule             |-> IF decision.alert_triggered /\ Surfaced(lvl)
                             THEN decision.trigger_rule ELSE None,
        trigger_stations |-> decision.trigger_stations,
        predicted_pm25   |-> RoundDiv(weighted_pred.num, weighted_pred.den),
        weighted_pm25    |-> RoundDiv(weighted_pred.num, weighted_pred.den),
        max_pm25         |-> max_predicted(city_rows),
        level_name       |-> IF decision.alert_triggered /\ Surfaced(lvl)
                             THEN lvl.name ELSE ALERT_LEVELS[1].name ]

(* The entry of city_alerts written for one city of city_results *)
CityAlert(city_rows, prev) ==
  LET weighted_pred == weighted_prediction(city_rows)
      decision == RuleDecision(city_rows, prev)
      lvl == get_alert_level(weighted_pred.num, weighted_pred.den * 10)
  IN  IF decision.alert_triggered /\ Surfaced(lvl)
      THEN [ alert            |-> TRUE,
             rule             |-> decision.trigger_rule,
             trigger_stations |-> decision.trigger_stations,
             predicted_pm25   |-> RoundDiv(weighted_pred.num, weighted_pred.den),
             weighted_pm25    |-> RoundDiv(weighted_pred.num, weighted_pred.den),
             max_pm25         |-> max_predicted(city_rows),
             level_name       |-> lvl.name ]
      ELSE [ alert            |-> FALSE,
             rule             |-> None,
             trigger_stations |-> <<>>,
             predicted_pm25   |-> RoundDiv(weighted_pred.num, weighted_pred.den),
             weighted_pm25    |-> RoundDiv(weighted_pred.num, weighted_pred.den),
             max_pm25         |-> max_predicted(city_rows),
             level_name       |-> ALERT_LEVELS[1].name ]

(* city_results: the rows of one city, in the order of the sorted results *)
CityRows(results, city) ==
  LET InCity(r) == r.target_city = city IN SelectSeq(results, InCity)

(* The keys of city_results: the cities that own a result *)
ResultCities(results) == { results[i].target_city : i \in 1..Len(results) }

(* evaluate(stations, readings, previous_readings) *)
evaluate(sts, rd, prev) ==
  LET results == SortResults(BuildResults(sts, rd))
  IN  [ stations    |-> results,
        city_alerts |-> [ city \in ResultCities(results) |->
                            CityAlert(CityRows(results, city), prev) ] ]

----------------------------------------------------------------------------
(* The state machine: one call of evaluate on inputs drawn in Init *)

RECURSIVE SeqsUpTo(_, _)
(* The sequences over S of length <= n without repeated elements *)
SeqsUpTo(S, n) ==
  IF n = 0 THEN {<<>>}
  ELSE LET shorter == SeqsUpTo(S, n - 1)
       IN  shorter \cup { Append(s, x) : s \in { t \in shorter : Len(t) = n - 1 },
                                          x \in S }

NoRepeat(s) == \A i, j \in 1..Len(s) : i # j => s[i] # s[j]

StationLists == { s \in SeqsUpTo(StationPool, MaxStations) : NoRepeat(s) }

IdsOf(sts) == { sts[i].id : i \in 1..Len(sts) }

(* The dicts with keys in K and values in V *)
Maps(K, V) == UNION { [S -> V] : S \in SUBSET K }

(* The value of result before the call returns *)
NoResult == [stations |-> <<>>, city_alerts |-> EmptyDict]

(* The other components are not in use *)
IdleEval ==
  /\ stations = <<>>
  /\ readings = EmptyDict
  /\ previous_readings = [none |-> TRUE, dict |-> EmptyDict]
  /\ result = NoResult
  /\ demo_city = None

IdleLevel == level_in = 0 /\ level_out = None

IdleAqi == aqi_in = 0 /\ aqi_out = 0

IdleFetch ==
  /\ fetch_stations = <<>>
  /\ fetch_responses = EmptyDict
  /\ fetch_out = [raised |-> FALSE, readings |-> EmptyDict, queries |-> <<>>]

(* No workbook, an empty cache, no caller *)
IdleCatalog ==
  /\ workbook = EmptyDict
  /\ station_cache = EmptyDict
  /\ caller = <<>>
  /\ loads = EmptyDict

(* No device, no alert sent *)
IdlePush ==
  /\ device_tokens = EmptyDict
  /\ push_last = [seq |-> 0, city |-> "", level |-> "", attempted |-> {},
                  invalid |-> {}, sent |-> 0, failed |-> 0]
  /\ push_invalid = {}
  /\ push_ops = 0

(* No API key, no request *)
IdleRate ==
  /\ api_key = [requests_this_hour |-> 0, hour_started |-> [some |-> FALSE, val |-> 0],
                total_requests |-> 0]
  /\ request = <<>>
  /\ clock = 0
  /\ allowed_in = EmptyDict
  /\ started = 0

Init ==
  /\ IdleLevel
  /\ IdleAqi
  /\ IdleFetch
  /\ IdleCatalog
  /\ IdlePush
  /\ IdleRate
  /\ stations \in StationLists
  /\ readings \in Maps(IdsOf(stations), ReadingValues)
  /\ previous_readings \in
       {[none |-> TRUE, dict |-> EmptyDict]}
         \cup { [none |-> FALSE, dict |-> d] : d \in Maps(PreviousIds, PreviousValues) }
  /\ result = NoResult
  /\ demo_city = None
  /\ pc = "call"

(* A call that fills the caller's map: readings.setdefault(sid, 0) *)
Evaluate_SetDefault ==
  /\ pc = "call"
  /\ result' = evaluate(stations, readings, previous_readings)
  /\ pc' = "done"
  /\ readings' = [ id \in IdsOf(stations) |->
                     IF id \in DOMAIN readings THEN readings[id] ELSE 0 ]
  /\ UNCHANGED <<stations, previous_readings, demo_city>>
  /\ UNCHANGED <<levelVars, aqiVars, fetchVars, catalogVars, pushVars, rateVars>>

(* The call: the inputs are read, never written *)
Evaluate ==
  /\ pc = "call"
  /\ result' = evaluate(stations, readings, previous_readings)
  /\ pc' = "done"
  /\ UNCHANGED <<stations, readings, previous_readings, demo_city>>
  /\ UNCHANGED <<levelVars, aqiVars, fetchVars, catalogVars, pushVars, rateVars>>

Next == Evaluate

Spec == Init /\ [][Next]_vars

----------------------------------------------------------------------------
(* get_alert_level on its own: one lookup of a value in tenths of a ug/m3 *)

LevelInputs == (0 - MaxLevel10)..MaxLevel10

InitLevel ==
  /\ IdleEval
  /\ IdleAqi
  /\ IdleFetch
  /\ IdleCatalog
  /\ IdlePush
  /\ IdleRate
  /\ level_in \in LevelInputs
  /\ level_out = None
  /\ pc = "call"

GetAlertLevel ==
  /\ pc = "call"
  /\ level_out' = get_alert_level(level_in, 10).name
  /\ pc' = "done"
  /\ UNCHANGED <<level_in, evalVars, aqiVars, fetchVars, catalogVars, pushVars, rateVars>>

NextLevel == GetAlertLevel

SpecLevel == InitLevel /\ [][NextLevel]_vars

----------------------------------------------------------------------------
(* _aqi_to_ugm3 (waqi.py); concentrations in tenths of a ug/m3 *)

(* _AQI_BREAKPOINTS: (aqi_lo, aqi_hi, c_lo, c_hi) *)
AQI_BREAKPOINTS ==
  << <<0,   50,  0,    120>>,
     <<51,  100, 121,  354>>,
     <<101, 150, 355,  554>>,
     <<151, 200, 555,  1504>>,
     <<201, 300, 1505, 2504>>,
     <<301, 400, 2505, 3504>>,
     <<401, 500, 3505, 5004>> >>

(* "if aqi_lo <= aqi <= aqi_hi" *)
InBreakpoint(aqi, row) == row[1] <= aqi /\ aqi <= row[2]

(* round(((aqi - aqi_lo) * (c_hi - c_lo)) / (aqi_hi - aqi_lo) + c_lo, 1) *)
Interpolate(aqi, row) ==
  RoundDiv((aqi - row[1]) * (row[4] - row[3]) + row[3] * (row[2] - row[1]),
           row[2] - row[1])

(* Variant: the lower AQI bound of a row is exclusive *)
aqi_to_ugm3_ExclusiveLow(aqi) ==
  IF aqi <= 0 THEN 0
  ELSE LET rows == { i \in 1..Len(AQI_BREAKPOINTS) :
                       AQI_BREAKPOINTS[i][1] < aqi /\ aqi <= AQI_BREAKPOINTS[i][2] }
       IN  IF rows # {}
           THEN Interpolate(aqi, AQI_BREAKPOINTS[CHOOSE i \in rows : \A j \in rows : i <= j])
           ELSE aqi * 10

(* _aqi_to_ugm3(aqi): the first row that holds aqi, else aqi itself *)
aqi_to_ugm3(aqi) ==
  IF aqi <= 0 THEN 0
  ELSE LET rows == { i \in 1..Len(AQI_BREAKPOINTS) : InBreakpoint(aqi, AQI_BREAKPOINTS[i]) }
       IN  IF rows # {}
           THEN Interpolate(aqi, AQI_BREAKPOINTS[CHOOSE i \in rows : \A j \in rows : i <= j])
           ELSE aqi * 10

AqiInputs == (0 - MaxAqi)..MaxAqi

InitAqi ==
  /\ IdleEval
  /\ IdleLevel
  /\ IdleFetch
  /\ IdleCatalog
  /\ IdlePush
  /\ IdleRate
  /\ aqi_in \in AqiInputs
  /\ aqi_out = 0
  /\ pc = "call"

AqiToUgm3 ==
  /\ pc = "call"
  /\ aqi_out' = aqi_to_ugm3(aqi_in)
  /\ pc' = "done"
  /\ UNCHANGED <<aqi_in, evalVars, levelVars, fetchVars, catalogVars, pushVars, rateVars>>

NextAqi == AqiToUgm3

SpecAqi == InitAqi /\ [][NextAqi]_vars

----------------------------------------------------------------------------
(* fetch_latest_pm25 and _fetch_waqi_bbox (waqi.py)                        *)
(*                                                                         *)
(* Coordinates.  Every point of the model lies on one meridian, where the  *)
(* great-circle distance of _haversine is R * |dlat|.  A latitude is an    *)
(* integer number of metres of arc along that meridian, so the distance of *)
(* two points is the difference of their latitudes, in metres.  A          *)
(* coordinate is [some |-> FALSE] when the key is missing or None.         *)

Coord(v) == [some |-> TRUE, val |-> v]
NoCoord == [some |-> FALSE, val |-> 0]

(* "best_dist = 30  # km max", in metres *)
MATCH_RADIUS_M == 30000

(* "pad = 0.5": half a degree of arc, in metres (6371 km * pi / 360) *)
PAD_M == 55597

(* The longitude of the meridian, in the unit of the latitudes *)
MeridianLon == 0 - 8800000

(* The catalog stations the fetch is called with: two with coordinates in *)
(* one city, one without longitude, and in a second city one with         *)
(* coordinates and one on the equator (lat = 0.0)                         *)
FetchStationPool ==
  { [id |-> "60106", target_city |-> "Toronto",  lat |-> Coord(100000), lon |-> Coord(MeridianLon)],
    [id |-> "66201", target_city |-> "Toronto",  lat |-> Coord(160000), lon |-> Coord(MeridianLon)],
    [id |-> "65701", target_city |-> "Toronto",  lat |-> Coord(40000),  lon |-> NoCoord],
    [id |-> "54801", target_city |-> "Montreal", lat |-> Coord(125000), lon |-> Coord(MeridianLon)],
    [id |-> "50801", target_city |-> "Montreal", lat |-> Coord(0),      lon |-> Coord(MeridianLon)] }

(* The entries of the "data" list of a response.  aqi is an integer, "-",  *)
(* or missing; station is an object or null.                               *)
EntryPool ==
  { [aqi |-> [kind |-> "int", val |-> 100],  lat |-> Coord(130000), lon |-> Coord(MeridianLon), station_ok |-> TRUE],
    [aqi |-> [kind |-> "int", val |-> 151],  lat |-> Coord(129999), lon |-> Coord(MeridianLon), station_ok |-> TRUE],
    [aqi |-> [kind |-> "int", val |-> 60],   lat |-> Coord(129999), lon |-> Coord(MeridianLon), station_ok |-> TRUE],
    [aqi |-> [kind |-> "dash", val |-> 0],   lat |-> Coord(100000), lon |-> Coord(MeridianLon), station_ok |-> TRUE],
    [aqi |-> [kind |-> "int", val |-> 40],   lat |-> Coord(100000), lon |-> Coord(MeridianLon), station_ok |-> FALSE] }

(* What the external source answers to one query:                          *)
(*   ok              200, a JSON object with status "ok" and a data list   *)
(*   http_error      a status code other than 200                          *)
(*   transport_error requests.get raises a RequestException                *)
(*   status_error    200, a JSON object whose status is not "ok"           *)
(*   not_json        200, a body that is not JSON                          *)
(*   not_object      200, JSON that is not an object (a list)              *)
(*   data_null       200, status "ok", "data": null                        *)
FailureKinds ==
  {"http_error", "transport_error", "status_error", "not_json", "not_object", "data_null"}

EntryLists == SeqsUpTo(EntryPool, MaxEntries)

ResponsePool ==
  { [kind |-> "ok", entries |-> es] : es \in EntryLists }
    \cup { [kind |-> k, entries |-> <<>>] : k \in FailureKinds }

(* _haversine(lat1, lon1, lat2, lon2), in metres, on the meridian *)
haversine(lat1, lat2) == IF lat1 >= lat2 THEN lat1 - lat2 ELSE lat2 - lat1

(* "s.get("lat")" as a condition: present and not 0 *)
Truthy(c) == c.some /\ c.val # 0

HasCoords(s) == Truthy(s.lat) /\ Truthy(s.lon)

(* The loop body of _fetch_waqi_bbox for one entry:                        *)
(*   "skip"   continue (no aqi, "-", negative, or a caught error)          *)
(*   "raise"  entry.get("station", {}) is None: AttributeError, not caught *)
(*   "append" the entry is appended                                        *)
EntryOutcome(e) ==
  IF e.aqi.kind # "int" \/ e.aqi.val < 0 THEN "skip"
  ELSE IF ~e.lat.some \/ ~e.lon.some THEN "skip"
  ELSE IF ~e.station_ok THEN "raise"
  ELSE "append"

RECURSIVE ParseEntries(_)
(* The loop over data.get("data", []) *)
ParseEntries(es) ==
  IF es = <<>> THEN [raised |-> FALSE, list |-> <<>>]
  ELSE LET o == EntryOutcome(Head(es))
           rest == ParseEntries(Tail(es))
       IN  IF o = "raise" THEN [raised |-> TRUE, list |-> <<>>]
           ELSE IF rest.raised THEN rest
           ELSE IF o = "skip" THEN rest
           ELSE [raised |-> FALSE,
                 list |-> << [lat |-> Head(es).lat.val, lon |-> Head(es).lon.val,
                              pm25 |-> aqi_to_ugm3(Head(es).aqi.val)] >> \o rest.list]

(* _fetch_waqi_bbox: the list it returns, or the exception it lets through. *)
(* resp.json() on a body that is not JSON raises requests' JSONDecodeError, *)
(* a RequestException since requests 2.27, which the except clause catches. *)
fetch_waqi_bbox(resp) ==
  CASE resp.kind \in {"http_error", "transport_error", "status_error", "not_json"} ->
         [raised |-> FALSE, list |-> <<>>]
    [] resp.kind \in {"not_object", "data_null"} -> [raised |-> TRUE, list |-> <<>>]
    [] OTHER -> ParseEntries(resp.entries)

RECURSIVE Nearest_Inclusive(_, _, _)
(* Variant: an observation at exactly the radius is accepted *)
Nearest_Inclusive(st, obs, best) ==
  IF obs = <<>> THEN best
  ELSE LET d == haversine(st.lat.val, Head(obs).lat)
       IN  IF d <= best.dist
           THEN Nearest_Inclusive(st, Tail(obs), [dist |-> d, some |-> TRUE, pm |-> Head(obs).pm25])
           ELSE Nearest_Inclusive(st, Tail(obs), best)

RECURSIVE Nearest_LastWins(_, _, _)
(* Variant: a later observation at the same distance replaces the best *)
Nearest_LastWins(st, obs, best) ==
  IF obs = <<>> THEN best
  ELSE LET d == haversine(st.lat.val, Head(obs).lat)
       IN  IF d < best.dist \/ (best.some /\ d = best.dist)
           THEN Nearest_LastWins(st, Tail(obs), [dist |-> d, some |-> TRUE, pm |-> Head(obs).pm25])
           ELSE Nearest_LastWins(st, Tail(obs), best)

RECURSIVE Nearest(_, _, _)
(* The loop over waqi_stations for one station: best = [dist, some, pm] *)
Nearest(st, obs, best) ==
  IF obs = <<>> THEN best
  ELSE LET d == haversine(st.lat.val, Head(obs).lat)
       IN  IF d < best.dist
           THEN Nearest(st, Tail(obs), [dist |-> d, some |-> TRUE, pm |-> Head(obs).pm25])
           ELSE Nearest(st, Tail(obs), best)

RECURSIVE MatchStations(_, _, _)
(* The loop over city_stations: readings[st["id"]] = best_pm *)
MatchStations(city_stations, obs, rd) ==
  IF city_stations = <<>> THEN rd
  ELSE LET st == Head(city_stations)
           best == Nearest(st, obs, [dist |-> MATCH_RADIUS_M, some |-> FALSE, pm |-> 0])
       IN  MatchStations(Tail(city_stations), obs,
             IF best.some
             THEN [ k \in DOMAIN rd \cup {st.id} |-> IF k = st.id THEN best.pm ELSE rd[k] ]
             ELSE rd)

RECURSIVE CityOrder(_, _)
(* The keys of city_groups in insertion order *)
CityOrder(sts, seen) ==
  IF sts = <<>> THEN <<>>
  ELSE IF Head(sts).target_city \in seen THEN CityOrder(Tail(sts), seen)
  ELSE <<Head(sts).target_city>> \o CityOrder(Tail(sts), seen \cup {Head(sts).target_city})

MinLat(sts) == CHOOSE v \in { sts[i].lat.val : i \in 1..Len(sts) } :
                 \A i \in 1..Len(sts) : v <= sts[i].lat.val
MaxLat(sts) == CHOOSE v \in { sts[i].lat.val : i \in 1..Len(sts) } :
                 \A i \in 1..Len(sts) : v >= sts[i].lat.val
MinLon(sts) == CHOOSE v \in { sts[i].lon.val : i \in 1..Len(sts) } :
                 \A i \in 1..Len(sts) : v <= sts[i].lon.val
MaxLon(sts) == CHOOSE v \in { sts[i].lon.val : i \in 1..Len(sts) } :
                 \A i \in 1..Len(sts) : v >= sts[i].lon.val

(* lat1, lng1, lat2, lng2 of the query of one city *)
BoundingBox(city_stations) ==
  << MinLat(city_stations) - PAD_M, MinLon(city_stations) - PAD_M,
     MaxLat(city_stations) + PAD_M, MaxLon(city_stations) + PAD_M >>

RECURSIVE FetchCities(_, _, _, _)
(* The loop over city_groups; an exception of one query ends the call *)
FetchCities(cities, with_coords, responses, acc) ==
  IF cities = <<>> THEN acc
  ELSE LET city == Head(cities)
           InCity(s) == s.target_city = city
           city_stations == SelectSeq(with_coords, InCity)
           asked == Append(acc.queries, [city |-> city, bbox |-> BoundingBox(city_stations)])
           got == fetch_waqi_bbox(responses[city])
       IN  IF got.raised
           THEN [raised |-> TRUE, readings |-> EmptyDict, queries |-> asked]
           ELSE FetchCities(Tail(cities), with_coords, responses,
                  [raised |-> FALSE,
                   readings |-> IF got.list = <<>> THEN acc.readings
                                ELSE MatchStations(city_stations, got.list, acc.readings),
                   queries |-> asked])

(* fetch_latest_pm25(api_key, stations) *)
fetch_latest_pm25(sts, responses) ==
  LET with_coords == SelectSeq(sts, HasCoords)
  IN  FetchCities(CityOrder(with_coords, {}), with_coords, responses,
                  [raised |-> FALSE, readings |-> EmptyDict, queries |-> <<>>])

FetchStationLists ==
  { s \in SeqsUpTo(FetchStationPool, MaxFetchStations) : NoRepeat(s) }

(* The cities a call queries *)
QueriedCities(sts) ==
  { sts[i].target_city : i \in { j \in 1..Len(sts) : HasCoords(sts[j]) } }

InitFetch ==
  /\ IdleEval
  /\ IdleLevel
  /\ IdleAqi
  /\ IdleCatalog
  /\ IdlePush
  /\ IdleRate
  /\ fetch_stations \in FetchStationLists
  /\ fetch_responses \in [QueriedCities(fetch_stations) -> ResponsePool]
  /\ fetch_out = [raised |-> FALSE, readings |-> EmptyDict, queries |-> <<>>]
  /\ pc = "call"

FetchLatestPm25 ==
  /\ pc = "call"
  /\ fetch_out' = fetch_latest_pm25(fetch_stations, fetch_responses)
  /\ pc' = "done"
  /\ UNCHANGED <<fetch_stations, fetch_responses>>
  /\ UNCHANGED <<evalVars, levelVars, aqiVars, catalogVars, pushVars, rateVars>>

NextFetch == FetchLatestPm25

SpecFetch == InitFetch /\ [][NextFetch]_vars

----------------------------------------------------------------------------
(* data.py: the station catalog, loaded from one workbook per city and    *)
(* kept in the module-level dict _station_cache.  The callers are request *)
(* threads of one process; each runs one call of load_stations or of      *)
(* load_all_stations, and the threads interleave between the cache        *)
(* lookup and the read of the workbook.                                   *)

(* The first two keys of CITIES, in the order of the dict *)
CITIES == <<"Toronto", "Montreal">>

CityKeys == { CITIES[i] : i \in 1..Len(CITIES) }

(* Python's order of the city keys as strings *)
CityRank(city) == IF city = "Montreal" THEN 1 ELSE IF city = "Toronto" THEN 2 ELSE 0

EXCLUDED_STATION_IDS == {"50308", "50310", "50314", "50313", "55702"}

(* A cell of the "Station ID" column as openpyxl returns it: empty, a    *)
(* number, or a text.  A text is a sequence of pieces, " " standing for  *)
(* white space.                                                          *)
EmptyCell == [kind |-> "none", num |-> 0, text |-> <<>>]
IntCell(n) == [kind |-> "int", num |-> n, text |-> <<>>]
StrCell(t) == [kind |-> "str", num |-> 0, text |-> t]

(* A data row: the id cell, the other columns already as the numbers they *)
(* parse to, and whether float() and int() accept the numeric cells       *)
Row(cell, name, dist, tier, r10, slope100, ok) ==
  [id |-> cell, city_name |-> name, distance |-> dist, tier |-> tier,
   R10 |-> r10, slope100 |-> slope100, intercept100 |-> 0, numeric_ok |-> ok]

(* Rows of the Toronto workbook: two usable rows (a text id, a numeric    *)
(* id), two rows of the denylist (a numeric cell, a padded text), a row   *)
(* without id, a row with a blank id, a row with an unparsable number     *)
RowPool ==
  { Row(StrCell(<<"60106">>), "Sudbury", 300, 1, 9, 100, TRUE),
    Row(IntCell(65701), "Parry Sound", 400, 2, 9, 25, TRUE),
    Row(IntCell(50308), "Saint-Anicet", 900, 1, 9, 100, TRUE),
    Row(StrCell(<<" ", "50310", " ">>), "Saint-Simon", 800, 1, 9, 100, TRUE),
    Row(EmptyCell, "", 0, 1, 0, 0, TRUE),
    Row(StrCell(<<" ">>), "", 0, 1, 0, 0, TRUE),
    Row(StrCell(<<"66201">>), "Thunder Bay", 700, 2, 0, 49, FALSE) }

(* A cell of the "lat" or "lon" column: the number float() returns, in   *)
(* hundredths of a degree, or a value float() rejects (empty, a text)    *)
NumCell(v) == [ok |-> TRUE, val |-> v]
BadCell == [ok |-> FALSE, val |-> 0]

(* A data row of the sheet "All Stations Data" *)
CoordRow(cell, lat, lon) == [id |-> cell, lat |-> lat, lon |-> lon]

(* The coordinate sheets: without data rows, or with a padded id, a row  *)
(* whose latitude does not parse, a row without id, and a second row     *)
(* for the first id                                                      *)
CoordTables ==
  { <<>>,
    << CoordRow(StrCell(<<" ", "60106">>), NumCell(4000), NumCell(0 - 8000)),
       CoordRow(IntCell(65701), BadCell, NumCell(0 - 8000)),
       CoordRow(EmptyCell, NumCell(4500), NumCell(0 - 7900)),
       CoordRow(IntCell(60106), NumCell(4650), NumCell(0 - 8100)) >> }

(* The workbook of a city: no file, a sheet "Included Stations" of fewer *)
(* than three rows, or one with data rows; and its coordinate sheet      *)
MissingWorkbook == [kind |-> "missing", rows |-> <<>>, coords |-> <<>>]
ShortWorkbook == [kind |-> "short", rows |-> <<>>, coords |-> <<>>]
SheetWorkbook(rows, coords) == [kind |-> "sheet", rows |-> rows, coords |-> coords]

TorontoWorkbooks ==
  {MissingWorkbook, ShortWorkbook}
    \cup { SheetWorkbook(rows, coords) :
             rows \in SeqsUpTo(RowPool, MaxRows) \ {<<>>}, coords \in CoordTables }

MontrealWorkbooks ==
  { MissingWorkbook,
    SheetWorkbook(<< Row(IntCell(55702), "Quebec", 250, 1, 9, 100, TRUE),
                     Row(StrCell(<<"60106">>), "Sudbury", 100, 2, 2, 150, TRUE) >>,
                  << CoordRow(StrCell(<<"60106">>), NumCell(4650), NumCell(0 - 8100)) >>) }

(* str(cell) *)
Str(cell) == IF cell.kind = "int" THEN <<ToString(cell.num)>> ELSE cell.text

RECURSIVE StripLeft(_)
StripLeft(t) == IF t # <<>> /\ Head(t) = " " THEN StripLeft(Tail(t)) ELSE t

RECURSIVE StripRight(_)
StripRight(t) ==
  IF t # <<>> /\ t[Len(t)] = " " THEN StripRight(SubSeq(t, 1, Len(t) - 1)) ELSE t

(* text.strip(), as one string *)
RECURSIVE Joined(_)
Joined(t) == IF t = <<>> THEN "" ELSE Head(t) \o Joined(Tail(t))

Strip(t) == Joined(StripRight(StripLeft(t)))

(* The rows load_stations skips: no id, a blank id, an id of the denylist, *)
(* a numeric cell that does not parse                                      *)
KeepRow_RawId(row) ==
  /\ row.id.kind # "none"
  /\ Strip(Str(row.id)) # ""
  /\ Joined(Str(row.id)) \notin EXCLUDED_STATION_IDS
  /\ row.numeric_ok

KeepRow(row) ==
  /\ row.id.kind # "none"
  /\ Strip(Str(row.id)) # ""
  /\ Strip(Str(row.id)) \notin EXCLUDED_STATION_IDS
  /\ row.numeric_ok

(* The station dict of a row; a catalog of one city has no target_city,   *)
(* which evaluate reads as "".  lat and lon are set after the row loop.   *)
StationOf(row) ==
  [id |-> Strip(Str(row.id)), city_name |-> row.city_name,
   distance |-> row.distance, tier |-> row.tier, R10 |-> row.R10,
   slope100 |-> row.slope100, intercept100 |-> row.intercept100,
   target_city |-> "", lat |-> NoCoord, lon |-> NoCoord]

RECURSIVE ParseRows_StopAtBadRow(_)
(* Variant: the first row that does not parse ends the loop *)
ParseRows_StopAtBadRow(rows) ==
  IF rows = <<>> THEN <<>>
  ELSE IF KeepRow(Head(rows))
       THEN <<StationOf(Head(rows))>> \o ParseRows_StopAtBadRow(Tail(rows))
  ELSE IF ~Head(rows).numeric_ok THEN <<>>
  ELSE ParseRows_StopAtBadRow(Tail(rows))

RECURSIVE ParseRows(_)
ParseRows(rows) ==
  IF rows = <<>> THEN <<>>
  ELSE IF KeepRow(Head(rows)) THEN <<StationOf(Head(rows))>> \o ParseRows(Tail(rows))
  ELSE ParseRows(Tail(rows))

RECURSIVE load_coords(_, _)
(* _load_coords: the dict sid -> (lat, lon) of the rows whose lat and lon *)
(* parse; a later row of an id replaces an earlier one                    *)
load_coords(crows, coords) ==
  IF crows = <<>> THEN coords
  ELSE LET row == Head(crows)
           sid == Strip(Str(row.id))
       IN  IF row.id.kind = "none" \/ ~row.lat.ok \/ ~row.lon.ok
           THEN load_coords(Tail(crows), coords)
           ELSE load_coords(Tail(crows),
                  [ k \in DOMAIN coords \cup {sid} |->
                      IF k = sid THEN <<row.lat.val, row.lon.val>> ELSE coords[k] ])

(* The loop that sets lat and lon: from coord_map, else None *)
WithCoords(sts, coord_map) ==
  [ i \in 1..Len(sts) |->
      IF sts[i].id \in DOMAIN coord_map
      THEN [sts[i] EXCEPT !.lat = Coord(coord_map[sts[i].id][1]),
                          !.lon = Coord(coord_map[sts[i].id][2])]
      ELSE sts[i] ]

(* The sort keys (tier, -distance) and (target_city, tier, -distance) *)
CatalogKey(st) == <<CityRank(st.target_city), st.tier, 0 - st.distance>>

KeyGreater(a, b) ==
  \/ a[1] > b[1]
  \/ a[1] = b[1] /\ a[2] > b[2]
  \/ a[1] = b[1] /\ a[2] = b[2] /\ a[3] > b[3]

(* list.sort(key=...): ascending and stable *)
InsertAsc(st, sorted) ==
  LET later == { j \in 1..Len(sorted) : KeyGreater(CatalogKey(sorted[j]), CatalogKey(st)) }
      at == IF later = {} THEN Len(sorted) + 1
            ELSE CHOOSE j \in later : \A k \in later : j <= k
  IN  SubSeq(sorted, 1, at - 1) \o <<st>> \o SubSeq(sorted, at, Len(sorted))

RECURSIVE SortCatalogFrom(_, _)
SortCatalogFrom(sts, sorted) ==
  IF sts = <<>> THEN sorted
  ELSE SortCatalogFrom(Tail(sts), InsertAsc(Head(sts), sorted))

SortCatalog(sts) == SortCatalogFrom(sts, <<>>)

(* The copies load_all_stations makes of the stations of one city *)
Tagged(sts, city_key) ==
  [ i \in 1..Len(sts) |-> [sts[i] EXCEPT !.target_city = city_key] ]

(* An entry of _station_cache: absent, or the cached list *)
NotCached == [cached |-> FALSE, value |-> <<>>]
Cached(v) == [cached |-> TRUE, value |-> v]

CacheKeys == CityKeys \cup {"_all"}

Callers == 1..MaxCallers

(* A caller before its call: op is the city key, or "_all" *)
NewCaller(op) ==
  [op |-> op, pc |-> IF op = "_all" THEN "all_check" ELSE "check",
   i |-> 0, acc |-> <<>>, ret |-> <<>>]

(* The city whose catalog the caller is loading *)
CityKeyOf(c) == IF c.op = "_all" THEN CITIES[c.i] ELSE c.op

(* load_stations returns v: to the view, or into the loop of *)
(* load_all_stations                                          *)
ReturnFrom(c, v) ==
  IF c.op # "_all" THEN [c EXCEPT !.pc = "done", !.ret = v]
  ELSE [c EXCEPT !.acc = c.acc \o Tagged(v, CITIES[c.i]),
                 !.i = c.i + 1,
                 !.pc = IF c.i = Len(CITIES) THEN "all_store" ELSE "check"]

InitCatalog ==
  /\ IdleEval
  /\ IdleLevel
  /\ IdleAqi
  /\ IdleFetch
  /\ IdlePush
  /\ IdleRate
  /\ workbook \in { ("Toronto" :> t) @@ ("Montreal" :> m) :
                      t \in TorontoWorkbooks, m \in MontrealWorkbooks }
  /\ station_cache = [k \in CacheKeys |-> NotCached]
  /\ caller \in [Callers -> { NewCaller(op) : op \in CacheKeys }]
  /\ loads = [c \in CityKeys |-> 0]
  /\ pc = "call"

(* load_stations, the cache lookup *)
CheckCache(t) ==
  /\ caller[t].pc = "check"
  /\ LET key == CityKeyOf(caller[t])
     IN  caller' = [caller EXCEPT ![t] =
                      IF station_cache[key].cached
                      THEN ReturnFrom(@, station_cache[key].value)
                      ELSE [@ EXCEPT !.pc = "load"]]
  /\ UNCHANGED <<workbook, station_cache, loads>>
  /\ UNCHANGED <<pc, evalVars, levelVars, aqiVars, fetchVars, pushVars, rateVars>>

(* load_stations after a miss: the workbook is read, the rows are parsed, *)
(* the list is sorted and stored.  The two early returns store nothing.   *)
LoadStations(t) ==
  /\ caller[t].pc = "load"
  /\ LET key == CityKeyOf(caller[t])
         wb == workbook[key]
         sts == SortCatalog(WithCoords(ParseRows(wb.rows),
                                       load_coords(wb.coords, EmptyDict)))
     IN  IF wb.kind = "missing"
         THEN /\ caller' = [caller EXCEPT ![t] = ReturnFrom(@, <<>>)]
              /\ UNCHANGED <<station_cache, loads>>
         ELSE /\ loads' = [loads EXCEPT ![key] = @ + 1]
              /\ IF wb.kind = "short"
                 THEN /\ caller' = [caller EXCEPT ![t] = ReturnFrom(@, <<>>)]
                      /\ UNCHANGED station_cache
                 ELSE /\ station_cache' = [station_cache EXCEPT ![key] = Cached(sts)]
                      /\ caller' = [caller EXCEPT ![t] = ReturnFrom(@, sts)]
  /\ UNCHANGED workbook
  /\ UNCHANGED <<pc, evalVars, levelVars, aqiVars, fetchVars, pushVars, rateVars>>

(* load_all_stations, the cache lookup *)
AllCheck(t) ==
  /\ caller[t].pc = "all_check"
  /\ caller' = [caller EXCEPT ![t] =
                  IF station_cache["_all"].cached
                  THEN [@ EXCEPT !.pc = "done", !.ret = station_cache["_all"].value]
                  ELSE [@ EXCEPT !.pc = "check", !.i = 1]]
  /\ UNCHANGED <<workbook, station_cache, loads>>
  /\ UNCHANGED <<pc, evalVars, levelVars, aqiVars, fetchVars, pushVars, rateVars>>

(* load_all_stations after its loop: sort, store, return *)
AllStore(t) ==
  /\ caller[t].pc = "all_store"
  /\ LET all_stations == SortCatalog(caller[t].acc)
     IN  /\ station_cache' = [station_cache EXCEPT !["_all"] = Cached(all_stations)]
         /\ caller' = [caller EXCEPT ![t] = [@ EXCEPT !.pc = "done", !.ret = all_stations]]
  /\ UNCHANGED <<workbook, loads>>
  /\ UNCHANGED <<pc, evalVars, levelVars, aqiVars, fetchVars, pushVars, rateVars>>

NextCatalog ==
  \E t \in Callers : CheckCache(t) \/ LoadStations(t) \/ AllCheck(t) \/ AllStore(t)

SpecCatalog == InitCatalog /\ [][NextCatalog]_vars

----------------------------------------------------------------------------
(* push.py and views/devices.py: the DeviceToken table, the registration  *)
(* views and send_alert_notifications.  push_invalid remembers the tokens *)
(* APNs has answered with 410 and that have not registered since;         *)
(* push_last describes the latest call of send_alert_notifications.       *)

DeviceTokenPool == {"tokA", "tokB"}

(* Accepted platforms; the loop pushes to "ios" only *)
Platforms == {"ios", "android"}

(* The "cities" lists a registration may carry: empty = all cities *)
CitySubscriptions == SUBSET CityKeys

LevelNames == { ALERT_LEVELS[i].name : i \in 1..Len(ALERT_LEVELS) }

(* "if level_name not in [...]: return 0, 0" *)
SIGNIFICANT_LEVELS == {"HIGH", "VERY HIGH", "EXTREME"}

(* What APNs answers to one push: 200, 410, or anything else *)
PushAnswers == {"sent", "token_invalid", "error"}

(* A token without row in the table *)
NoDevice == [registered |-> FALSE, is_active |-> FALSE, platform |-> "ios", cities |-> {}]

InitPush ==
  /\ IdleEval
  /\ IdleLevel
  /\ IdleAqi
  /\ IdleFetch
  /\ IdleCatalog
  /\ IdleRate
  /\ device_tokens = [t \in DeviceTokenPool |-> NoDevice]
  /\ push_last = [seq |-> 0, city |-> "", level |-> "", attempted |-> {},
                  invalid |-> {}, sent |-> 0, failed |-> 0]
  /\ push_invalid = {}
  /\ push_ops = 0
  /\ pc = "call"

(* api_register_device: update_or_create with is_active = True *)
RegisterDevice(token, platform, cities) ==
  /\ push_ops < MaxPushOps
  /\ platform \in {"ios", "android", "web"}
  /\ cities \subseteq CityKeys
  /\ device_tokens' = [device_tokens EXCEPT ![token] =
                         [registered |-> TRUE, is_active |-> TRUE,
                          platform |-> platform, cities |-> cities]]
  /\ push_invalid' = push_invalid \ {token}
  /\ push_ops' = push_ops + 1
  /\ UNCHANGED push_last
  /\ UNCHANGED <<pc, evalVars, levelVars, aqiVars, fetchVars, catalogVars, rateVars>>

(* api_unregister_device: is_active = False when the row exists *)
UnregisterDevice(token) ==
  /\ push_ops < MaxPushOps
  /\ device_tokens[token].registered
  /\ device_tokens' = [device_tokens EXCEPT ![token].is_active = FALSE]
  /\ push_ops' = push_ops + 1
  /\ UNCHANGED <<push_last, push_invalid>>
  /\ UNCHANGED <<pc, evalVars, levelVars, aqiVars, fetchVars, catalogVars, rateVars>>

(* The devices the loop of send_alert_notifications pushes to *)
PushTargets(city) ==
  { t \in DeviceTokenPool :
      /\ device_tokens[t].registered
      /\ device_tokens[t].is_active
      /\ ~(device_tokens[t].cities # {} /\ city \notin device_tokens[t].cities)
      /\ device_tokens[t].platform = "ios" }

(* Variant: the tokens answered with 410 stay active *)
SendAlertNotifications_KeepInvalid(city, level_name, answer) ==
  /\ push_ops < MaxPushOps
  /\ push_ops' = push_ops + 1
  /\ IF level_name \notin SIGNIFICANT_LEVELS
     THEN /\ push_last' = [seq |-> push_ops + 1, city |-> city, level |-> level_name,
                           attempted |-> {}, invalid |-> {}, sent |-> 0, failed |-> 0]
          /\ UNCHANGED <<device_tokens, push_invalid>>
     ELSE LET targets == PushTargets(city)
              tokens_to_deactivate == { t \in targets : answer[t] = "token_invalid" }
          IN  /\ push_last' =
                   [seq |-> push_ops + 1, city |-> city, level |-> level_name,
                    attempted |-> targets, invalid |-> tokens_to_deactivate,
                    sent |-> Cardinality({ t \in targets : answer[t] = "sent" }),
                    failed |-> Cardinality({ t \in targets : answer[t] # "sent" })]
              /\ UNCHANGED device_tokens
              /\ push_invalid' = push_invalid \cup tokens_to_deactivate
  /\ UNCHANGED <<pc, evalVars, levelVars, aqiVars, fetchVars, catalogVars, rateVars>>

(* send_alert_notifications(city, level_name, ...), with the answer of    *)
(* APNs for each token                                                    *)
SendAlertNotifications(city, level_name, answer) ==
  /\ push_ops < MaxPushOps
  /\ push_ops' = push_ops + 1
  /\ IF level_name \notin SIGNIFICANT_LEVELS
     THEN /\ push_last' = [seq |-> push_ops + 1, city |-> city, level |-> level_name,
                           attempted |-> {}, invalid |-> {}, sent |-> 0, failed |-> 0]
          /\ UNCHANGED <<device_tokens, push_invalid>>
     ELSE LET targets == PushTargets(city)
              tokens_to_deactivate == { t \in targets : answer[t] = "token_invalid" }
          IN  /\ push_last' =
                   [seq |-> push_ops + 1, city |-> city, level |-> level_name,
                    attempted |-> targets, invalid |-> tokens_to_deactivate,
                    sent |-> Cardinality({ t \in targets : answer[t] = "sent" }),
                    failed |-> Cardinality({ t \in targets : answer[t] # "sent" })]
              /\ device_tokens' =
                   [ t \in DeviceTokenPool |->
                       IF t \in tokens_to_deactivate
                       THEN [device_tokens[t] EXCEPT !.is_active = FALSE]
                       ELSE device_tokens[t] ]
              /\ push_invalid' = push_invalid \cup tokens_to_deactivate
  /\ UNCHANGED <<pc, evalVars, levelVars, aqiVars, fetchVars, catalogVars, rateVars>>

NextPush ==
  \/ \E token \in DeviceTokenPool, platform \in Platforms, cities \in CitySubscriptions :
       RegisterDevice(token, platform, cities)
  \/ \E token \in DeviceTokenPool : UnregisterDevice(token)
  \/ \E city \in CityKeys, level_name \in LevelNames,
        answer \in [DeviceTokenPool -> PushAnswers] :
       SendAlertNotifications(city, level_name, answer)

SpecPush == InitPush /\ [][NextPush]_vars

----------------------------------------------------------------------------
(* models.py, APIKey.check_rate_limit, called by require_api_key.  Every  *)
(* request loads its own APIKey object from the database, runs            *)
(* check_rate_limit on it and saves the counters of that object; the row  *)
(* is not locked in between.  allowed_in counts, per value of             *)
(* hour_started, the requests that were allowed in that window.           *)

(* The rate_limit of the key's plan; PLAN_LIMITS has 100, 1000 and 10000, *)
(* the model a limit of 2 requests per window                             *)
RateLimit == 2

(* One tick of the clock is half a window *)
TickSeconds == 1800
WINDOW_SECONDS == 3600

Clients == 1..MaxClients

NoTime == [some |-> FALSE, val |-> 0]
Time(v) == [some |-> TRUE, val |-> v]

(* The row of a new key *)
NewKey == [requests_this_hour |-> 0, hour_started |-> NoTime, total_requests |-> 0]

(* A client between two requests *)
NoRequest == [pc |-> "idle", obj |-> NewKey, outcome |-> "none"]

InitRate ==
  /\ IdleEval
  /\ IdleLevel
  /\ IdleAqi
  /\ IdleFetch
  /\ IdleCatalog
  /\ IdlePush
  /\ api_key = NewKey
  /\ request = [c \in Clients |-> NoRequest]
  /\ clock = 0
  /\ allowed_in = [h \in 0..(MaxClock + 1) |-> 0]
  /\ started = 0
  /\ pc = "call"

(* require_api_key: APIKey.objects.get(key=token, is_active=True) *)
GetKey(c) ==
  /\ request[c].pc = "idle"
  /\ started < MaxRequests
  /\ started' = started + 1
  /\ request' = [request EXCEPT ![c] = [pc |-> "check", obj |-> api_key, outcome |-> "none"]]
  /\ UNCHANGED <<api_key, clock, allowed_in>>
  /\ UNCHANGED <<pc, evalVars, levelVars, aqiVars, fetchVars, catalogVars, pushVars>>

(* "Reset if hour has passed", on the object of the request *)
WindowOf(obj, now) ==
  IF ~obj.hour_started.some
       \/ (now - obj.hour_started.val) * TickSeconds >= WINDOW_SECONDS
  THEN [obj EXCEPT !.hour_started = Time(now), !.requests_this_hour = 0]
  ELSE obj

(* check_rate_limit on the object loaded by the request; save() writes    *)
(* requests_this_hour, hour_started and total_requests of that object     *)
CheckRateLimit(c) ==
  /\ request[c].pc = "check"
  /\ LET obj == WindowOf(request[c].obj, clock)
     IN  IF obj.requests_this_hour >= RateLimit
         THEN /\ request' = [request EXCEPT ![c] =
                               [pc |-> "idle", obj |-> obj, outcome |-> "rejected"]]
              /\ UNCHANGED <<api_key, allowed_in>>
         ELSE LET saved == [obj EXCEPT !.requests_this_hour = @ + 1,
                                       !.total_requests = @ + 1]
              IN  /\ api_key' = saved
                  /\ allowed_in' = [allowed_in EXCEPT ![saved.hour_started.val] = @ + 1]
                  /\ request' = [request EXCEPT ![c] =
                                   [pc |-> "idle", obj |-> saved, outcome |-> "allowed"]]
  /\ UNCHANGED <<clock, started>>
  /\ UNCHANGED <<pc, evalVars, levelVars, aqiVars, fetchVars, catalogVars, pushVars>>

(* Time passes *)
Tick ==
  /\ clock < MaxClock
  /\ clock' = clock + 1
  /\ UNCHANGED <<api_key, request, allowed_in, started>>
  /\ UNCHANGED <<pc, evalVars, levelVars, aqiVars, fetchVars, catalogVars, pushVars>>

NextRate ==
  \/ \E c \in Clients : GetKey(c)
  \/ \E c \in Clients : CheckRateLimit(c)
  \/ Tick

SpecRate == InitRate /\ [][NextRate]_vars

----------------------------------------------------------------------------
(* views.py, api_demo, with DEMO_DATA and get_all_demo_data of data.py:   *)
(* one request on an empty station cache.  demo_city is the city of the   *)
(* URL, or None for /api/demo/.                                           *)

(* DEMO_DATA, the entries of the cities of CITIES, in ug/m3 *)
DEMO_DATA ==
  ("Toronto" :> ("60106" :> 85 @@ "66201" :> 78 @@ "65701" :> 72 @@ "61201" :> 90
                   @@ "60302" :> 65 @@ "65401" :> 55 @@ "60609" :> 30
                   @@ "360291007" :> 20 @@ "61502" :> 18))
    @@ ("Montreal" :> ("54801" :> 80 @@ "52001" :> 75 @@ "50801" :> 68
                         @@ "500070012" :> 55 @@ "500070014" :> 50
                         @@ "500070007" :> 45 @@ "60106" :> 70 @@ "60302" :> 40))

(* merged.update(city_data) *)
DictUpdate(merged, city_data) ==
  [ k \in DOMAIN merged \cup DOMAIN city_data |->
      IF k \in DOMAIN city_data THEN city_data[k] ELSE merged[k] ]

RECURSIVE MergeDemoFrom(_, _)
(* The loop over DEMO_DATA.values(), from the i-th city on *)
MergeDemoFrom(i, merged) ==
  IF i > Len(CITIES) THEN merged
  ELSE MergeDemoFrom(i + 1, DictUpdate(merged, DEMO_DATA[CITIES[i]]))

get_all_demo_data == MergeDemoFrom(1, EmptyDict)

(* What load_stations returns for a workbook that is not cached *)
LoadedStations(wb) ==
  IF wb.kind # "sheet" THEN <<>>
  ELSE SortCatalog(WithCoords(ParseRows(wb.rows), load_coords(wb.coords, EmptyDict)))

RECURSIVE TaggedFrom(_)
(* The loop of load_all_stations, from the i-th city on *)
TaggedFrom(i) ==
  IF i > Len(CITIES) THEN <<>>
  ELSE Tagged(LoadedStations(workbook[CITIES[i]]), CITIES[i]) \o TaggedFrom(i + 1)

(* What load_all_stations returns on an empty cache *)
LoadedAllStations == SortCatalog(TaggedFrom(1))

InitDemo ==
  /\ IdleLevel
  /\ IdleAqi
  /\ IdleFetch
  /\ IdlePush
  /\ IdleRate
  /\ workbook \in { ("Toronto" :> t) @@ ("Montreal" :> m) :
                      t \in TorontoWorkbooks, m \in MontrealWorkbooks }
  /\ station_cache = [k \in CacheKeys |-> NotCached]
  /\ caller = <<>>
  /\ loads = [c \in CityKeys |-> 0]
  /\ stations = <<>>
  /\ readings = EmptyDict
  /\ previous_readings = [none |-> TRUE, dict |-> EmptyDict]
  /\ result = NoResult
  /\ demo_city \in CityKeys \cup {None}
  /\ pc = "call"

(* api_demo(request, city): the catalog is loaded, the demo readings are  *)
(* chosen, evaluate is called without previous readings                   *)
ApiDemo ==
  /\ pc = "call"
  /\ LET Asked(c) == demo_city = None \/ demo_city = c
         sts == IF demo_city # None THEN LoadedStations(workbook[demo_city])
                ELSE LoadedAllStations
         rd == IF demo_city # None THEN DEMO_DATA[demo_city] ELSE get_all_demo_data
     IN  /\ stations' = sts
         /\ readings' = rd
         /\ result' = evaluate(sts, rd, [none |-> TRUE, dict |-> EmptyDict])
         /\ station_cache' =
              [ k \in CacheKeys |->
                  IF k = "_all"
                  THEN IF demo_city = None THEN Cached(LoadedAllStations) ELSE NotCached
                  ELSE IF Asked(k) /\ workbook[k].kind = "sheet"
                       THEN Cached(LoadedStations(workbook[k]))
                       ELSE NotCached ]
         /\ loads' = [ c \in CityKeys |->
                         IF Asked(c) /\ workbook[c].kind # "missing" THEN 1 ELSE 0 ]
  /\ pc' = "done"
  /\ UNCHANGED <<previous_readings, demo_city, workbook, caller>>
  /\ UNCHANGED <<levelVars, aqiVars, fetchVars, pushVars, rateVars>>

NextDemo == ApiDemo

SpecDemo == InitDemo /\ [][NextDemo]_vars

----------------------------------------------------------------------------
(* The conditions of the rules, read off the inputs of the call *)

Returned == pc = "done"

(* The indices of the input stations that have a current reading *)
Live == { i \in 1..Len(stations) : stations[i].id \in DOMAIN readings }

LiveIn(city) == { i \in Live : stations[i].target_city = city }

Raw(i) == readings[stations[i].id]

InputCities == { stations[i].target_city : i \in 1..Len(stations) }

PreviousSupplied == ~previous_readings.none /\ DOMAIN previous_readings.dict # {}

PreviousOf(i) ==
  IF PreviousSupplied /\ stations[i].id \in DOMAIN previous_readings.dict
  THEN previous_readings.dict[stations[i].id] ELSE 0

(* Regional stations of the city with raw reading >= 40 *)
RegionalQualifying(city) ==
  { i \in LiveIn(city) : stations[i].tier = 1 /\ stations[i].distance <= 600 /\ Raw(i) >= 40 }

(* Distant stations of the city with raw reading >= 35 *)
DistantQualifying(city) ==
  { i \in LiveIn(city) : stations[i].distance > 600 /\ Raw(i) >= 35 }

(* Intermediate stations of the city with current and previous reading >= 20 *)
IntermediateQualifying(city) ==
  { i \in LiveIn(city) : /\ stations[i].distance >= 200
                         /\ stations[i].distance <= 600
                         /\ Raw(i) >= 20
                         /\ PreviousOf(i) >= 20 }

(* Corridor stations of the city with raw reading >= 40 *)
CorridorQualifying(city) ==
  { i \in LiveIn(city) : stations[i].tier >= 2 /\ stations[i].distance <= 400 /\ Raw(i) >= 40 }

Rule1Holds(city) == RegionalQualifying(city) # {}

Rule2Holds(city) ==
  /\ PreviousSupplied
  /\ DistantQualifying(city) # {}
  /\ IntermediateQualifying(city) # {}

Rule3Holds(city) == CorridorQualifying(city) # {}

SomeRuleHolds(city) == Rule1Holds(city) \/ Rule2Holds(city) \/ Rule3Holds(city)

(* The city's weighted prediction is >= 20 ug/m3 *)
WeightedAtLeast20(city) ==
  LET w == weighted_prediction(CityRows(result.stations, city))
  IN  w.num >= 200 * w.den

NamesOf(idx) == { stations[i].city_name : i \in idx }

Decision(city) == result.city_alerts[city]

DecidedCities == DOMAIN result.city_alerts

----------------------------------------------------------------------------
(* C1: the rules are decided in the order 1, 2, 3 and the first satisfied  *)
(* one is reported: a surfaced alert of a city whose Rule 1 condition      *)
(* holds has rule "rule1" whatever Rules 2 and 3 say; "rule2" is reported  *)
(* only if Rule 1 did not fire, "rule3" only if neither Rule 1 nor Rule 2  *)
(* fired.                                                                  *)
C1_RulePriority ==
  Returned =>
    \A city \in DecidedCities :
      /\ (Rule1Holds(city) /\ Decision(city).alert) => Decision(city).rule = "rule1"
      /\ Decision(city).rule = "rule2" => ~Rule1Holds(city)
      /\ Decision(city).rule = "rule3" => (~Rule1Holds(city) /\ ~Rule2Holds(city))

(* Rule 1 and Rule 3 hold together in a city and rule1 is reported *)
C1_Witness ==
  /\ Returned
  /\ \E city \in DecidedCities :
       /\ Rule1Holds(city) /\ Rule3Holds(city)
       /\ Decision(city).alert
       /\ Decision(city).rule = "rule1"

(* C2: alert = true if and only if a rule fired and the city's weighted    *)
(* prediction is >= 20.                                                    *)
C2_AlertIffRuleAndLevel ==
  Returned =>
    \A city \in DecidedCities :
      Decision(city).alert = (SomeRuleHolds(city) /\ WeightedAtLeast20(city))

(* A rule fired in a city whose weighted prediction is in the LOW band *)
C2_Witness ==
  /\ Returned
  /\ \E city \in DecidedCities :
       /\ Rule1Holds(city)
       /\ ~WeightedAtLeast20(city)
       /\ ~Decision(city).alert

(* C3: rule = "rule2" only if Rule 1 did not fire, previous_readings is    *)
(* non-empty, a Distant station of the city reads >= 35 and an             *)
(* Intermediate station of it reads >= 20 now and >= 20 the hour before    *)
(* (an id absent from previous_readings counting as 0).                    *)
C3_Rule2NeedsBothLegs ==
  Returned =>
    \A city \in DecidedCities :
      Decision(city).rule = "rule2" =>
        /\ ~Rule1Holds(city)
        /\ PreviousSupplied
        /\ DistantQualifying(city) # {}
        /\ IntermediateQualifying(city) # {}

(* A rule2 alert is reported *)
C3_Witness ==
  /\ Returned
  /\ \E city \in DecidedCities :
       Decision(city).alert /\ Decision(city).rule = "rule2"

(* C4: city_alerts has one entry for every target city of the input        *)
(* station list, a city without any current reading included, whose entry  *)
(* is alert = false, weighted and max prediction 0, level LOW.             *)
C4_EntryForEveryInputCity ==
  Returned =>
    /\ DecidedCities = InputCities
    /\ \A city \in InputCities :
         LiveIn(city) = {} =>
           /\ Decision(city).alert = FALSE
           /\ Decision(city).weighted_pm25 = 0
           /\ Decision(city).max_pm25 = 0
           /\ Decision(city).level_name = "LOW"

(* C6: the station results are in non-increasing order of predicted *)
C6_SortedByPredicted ==
  Returned =>
    \A i \in 1..(Len(result.stations) - 1) :
      result.stations[i].predicted >= result.stations[i + 1].predicted

(* The input order of two stations with readings is not the result order *)
C6_Witness ==
  /\ Returned
  /\ Len(result.stations) >= 2
  /\ \E i, j \in Live :
       /\ i < j
       /\ RoundDiv(Pred100(stations[i], Raw(i)), 10) < RoundDiv(Pred100(stations[j], Raw(j)), 10)

(* C7: one station result for each input station whose id is a key of      *)
(* readings and none for any other; a station without a reading takes part *)
(* in no city decision.                                                    *)
C7_OneResultPerReading ==
  Returned =>
    /\ Len(result.stations) = Cardinality(Live)
    /\ \A i \in Live :
         \E k \in 1..Len(result.stations) :
           /\ result.stations[k].id = stations[i].id
           /\ result.stations[k].target_city = stations[i].target_city
           /\ result.stations[k].station = stations[i].city_name
           /\ result.stations[k].pm25 = Raw(i)
    /\ \A k \in 1..Len(result.stations) :
         \E i \in Live :
           /\ result.stations[k].id = stations[i].id
           /\ result.stations[k].target_city = stations[i].target_city
    /\ \A city \in DecidedCities : LiveIn(city) # {}
    /\ \A city \in DecidedCities :
         /\ Decision(city).max_pm25 \in
              { RoundDiv(Pred100(stations[i], Raw(i)), 10) : i \in LiveIn(city) }
         /\ \A name \in { Decision(city).trigger_stations[k] :
                            k \in 1..Len(Decision(city).trigger_stations) } :
              name \in NamesOf(LiveIn(city))
    /\ LET WithReading(st) == st.id \in DOMAIN readings
       IN  result = evaluate(SelectSeq(stations, WithReading), readings, previous_readings)

(* A city has a station with a reading and a station without one *)
C7_Witness ==
  /\ Returned
  /\ \E i, j \in 1..Len(stations) :
       /\ i \in Live
       /\ j \notin Live
       /\ stations[i].target_city = stations[j].target_city
  /\ result.stations # <<>>

C10_NoAlertDefaults ==
  Returned =>
    \A city \in DecidedCities :
      ~(SomeRuleHolds(city) /\ WeightedAtLeast20(city)) =>
        LET rows == CityRows(result.stations, city)
            w == weighted_prediction(rows)
        IN  /\ Decision(city).alert = FALSE
            /\ Decision(city).rule = None
            /\ Decision(city).trigger_stations = <<>>
            /\ Decision(city).level_name = "LOW"
            /\ Decision(city).weighted_pm25 = RoundDiv(w.num, w.den)
            /\ Decision(city).max_pm25 \in { rows[k].predicted : k \in 1..Len(rows) }
            /\ \A k \in 1..Len(rows) : rows[k].predicted <= Decision(city).max_pm25

(* One city's rule was suppressed, another's weighted prediction is 20 or  *)
(* more with no rule fired                                                 *)
C10_Witness ==
  /\ Returned
  /\ \E city \in DecidedCities :
       /\ SomeRuleHolds(city)
       /\ ~WeightedAtLeast20(city)
       /\ Decision(city).trigger_stations = <<>>
  /\ \E city \in DecidedCities :
       /\ ~SomeRuleHolds(city)
       /\ WeightedAtLeast20(city)
       /\ Decision(city).level_name = "LOW"

----------------------------------------------------------------------------
(* C11: get_alert_level(v) is the band with the greatest minimum <= v      *)
(* among LOW(0), MODERATE(20), HIGH(60), VERY HIGH(80), EXTREME(120), and  *)
(* LOW for v < 0; the bands are contiguous from 0, each lower bound is     *)
(* inclusive, and the band index does not decrease with v.                 *)
LevelIndex(name) == CHOOSE i \in 1..Len(ALERT_LEVELS) : ALERT_LEVELS[i].name = name

C11_LevelLookup ==
  Returned =>
    /\ level_out = (IF level_in < 200 THEN "LOW"
                    ELSE IF level_in < 600 THEN "MODERATE"
                    ELSE IF level_in < 800 THEN "HIGH"
                    ELSE IF level_in < 1200 THEN "VERY HIGH"
                    ELSE "EXTREME")
    /\ ALERT_LEVELS[1].min = 0
    /\ \A i \in 1..(Len(ALERT_LEVELS) - 1) : ALERT_LEVELS[i].max = ALERT_LEVELS[i + 1].min
    /\ \A w \in LevelInputs :
         level_in < w => LevelIndex(level_out) <= LevelIndex(get_alert_level(w, 10).name)

(* A value exactly on the lower bound of a band above LOW was looked up *)
C11_Witness ==
  /\ Returned
  /\ level_in = 600
  /\ level_out = "HIGH"

(* C12: the AQI conversion gives 0.0 for aqi <= 0; for 0 < aqi <= 500 the  *)
(* interpolation inside the row that holds aqi, rounded to one decimal,    *)
(* each row's AQI bounds mapping to the row's concentrations; and aqi      *)
(* itself above 500.                                                       *)
C12_AqiConversion ==
  Returned =>
    /\ aqi_in <= 0 => aqi_out = 0
    /\ aqi_in > 500 => aqi_out = aqi_in * 10
    /\ (aqi_in > 0 /\ aqi_in <= 500) =>
         \E i \in 1..Len(AQI_BREAKPOINTS) :
           LET lo == AQI_BREAKPOINTS[i][1]
               hi == AQI_BREAKPOINTS[i][2]
               c_lo == AQI_BREAKPOINTS[i][3]
               c_hi == AQI_BREAKPOINTS[i][4]
               exact == (aqi_in - lo) * (c_hi - c_lo) + c_lo * (hi - lo)
           IN  /\ lo <= aqi_in /\ aqi_in <= hi
               /\ 2 * (aqi_out * (hi - lo) - exact) <= hi - lo
               /\ 2 * (exact - aqi_out * (hi - lo)) <= hi - lo
               /\ aqi_in = lo => aqi_out = c_lo
               /\ aqi_in = hi => aqi_out = c_hi
    /\ aqi_in = 50 => aqi_out = 120
    /\ aqi_in = 51 => aqi_out = 121
    /\ aqi_in = 500 => aqi_out = 5004

(* The lower bound of the second row was converted *)
C12_Witness ==
  /\ Returned
  /\ aqi_in = 51
  /\ aqi_out = 121

----------------------------------------------------------------------------
(* The observations of a response, read off the inputs of the fetch *)

(* The stations of the call that have both coordinates *)
Located == { i \in 1..Len(fetch_stations) :
               /\ fetch_stations[i].lat.some /\ fetch_stations[i].lat.val # 0
               /\ fetch_stations[i].lon.some /\ fetch_stations[i].lon.val # 0 }

ResponseOf(i) == fetch_responses[fetch_stations[i].target_city]

(* The entries of the response that carry an AQI and a position *)
Observations(resp) ==
  IF resp.kind # "ok" THEN {}
  ELSE { k \in 1..Len(resp.entries) :
           /\ resp.entries[k].aqi.kind = "int"
           /\ resp.entries[k].aqi.val >= 0
           /\ resp.entries[k].lat.some
           /\ resp.entries[k].lon.some }

DistanceM(i, k) ==
  LET a == fetch_stations[i].lat.val
      b == ResponseOf(i).entries[k].lat.val
  IN  IF a >= b THEN a - b ELSE b - a

(* Some observation of the station's city is strictly closer than 30 km *)
WithinRadius(i) == \E k \in Observations(ResponseOf(i)) : DistanceM(i, k) < 30000

(* C13: a station gets a reading only if the nearest observation of its    *)
(* city's query is strictly closer than 30 km: none at exactly 30 km or    *)
(* farther, one at 29.999 km.                                              *)
C13_MatchingRadius ==
  (Returned /\ ~fetch_out.raised) =>
    \A i \in Located :
      (fetch_stations[i].id \in DOMAIN fetch_out.readings) = WithinRadius(i)

(* One station has its nearest observation at 29.999 km and is matched,    *)
(* another has it at exactly 30 km and is not                              *)
C13_Witness ==
  /\ Returned
  /\ ~fetch_out.raised
  /\ \E i, j \in Located :
       /\ \E k \in Observations(ResponseOf(i)) : DistanceM(i, k) = 29999
       /\ fetch_stations[i].id \in DOMAIN fetch_out.readings
       /\ \E k \in Observations(ResponseOf(j)) : DistanceM(j, k) = 30000
       /\ \A k \in Observations(ResponseOf(j)) : DistanceM(j, k) >= 30000
       /\ fetch_stations[j].id \notin DOMAIN fetch_out.readings

(* C14: a failed fetch for one city (non-200 status, transport error,      *)
(* status other than "ok", malformed payload) gives that city no           *)
(* observations: no exception leaves fetch_latest_pm25, the city's         *)
(* stations get no reading, the other cities are matched as usual, and a   *)
(* malformed entry is skipped without losing the valid ones.               *)
C14_FetchFailureContained ==
  Returned =>
    /\ ~fetch_out.raised
    /\ \A i \in Located :
         (fetch_stations[i].id \in DOMAIN fetch_out.readings) = WithinRadius(i)

----------------------------------------------------------------------------
(* C15: the city weighted prediction is sum(w_i * predicted_i) / sum(w_i)  *)
(* over the city's station results with w_i = max(R_i squared, 0.1): a     *)
(* station with R = 0 weighs exactly 0.1, and a negative R weighs as its   *)
(* absolute value.                                                         *)
AbsR10(i) == IF stations[i].R10 >= 0 THEN stations[i].R10 ELSE 0 - stations[i].R10

(* max(|R| squared, 0.1), in hundredths *)
FlooredWeight(i) == IF AbsR10(i) * AbsR10(i) > 10 THEN AbsR10(i) * AbsR10(i) ELSE 10

PredictedOfStation(i) == RoundDiv(stations[i].slope100 * Raw(i) + stations[i].intercept100, 10)

RECURSIVE SumWeights(_)
SumWeights(idx) ==
  IF idx = {} THEN 0
  ELSE LET i == CHOOSE i \in idx : TRUE
       IN  FlooredWeight(i) + SumWeights(idx \ {i})

RECURSIVE SumWeighted(_)
SumWeighted(idx) ==
  IF idx = {} THEN 0
  ELSE LET i == CHOOSE i \in idx : TRUE
       IN  FlooredWeight(i) * PredictedOfStation(i) + SumWeighted(idx \ {i})

C15_WeightedAverage ==
  Returned =>
    \A city \in DecidedCities :
      LET rows == CityRows(result.stations, city)
          w == weighted_prediction(rows)
      IN  /\ w.num * SumWeights(LiveIn(city)) = SumWeighted(LiveIn(city)) * w.den
          /\ Decision(city).weighted_pm25
               = RoundDiv(SumWeighted(LiveIn(city)), SumWeights(LiveIn(city)))
          /\ \A k \in 1..Len(rows) :
               /\ Weight(rows[k]) >= 10
               /\ rows[k].R10 = 0 => Weight(rows[k]) = 10

(* A city with a station of R = 0, a station of negative R and a station   *)
(* of positive R, whose predictions differ                                 *)
C15_Witness ==
  /\ Returned
  /\ \E city \in DecidedCities :
       \E i, j, k \in LiveIn(city) :
         /\ stations[i].R10 = 0
         /\ stations[j].R10 < 0
         /\ stations[k].R10 > 0
         /\ PredictedOfStation(i) # PredictedOfStation(j)
         /\ PredictedOfStation(j) # PredictedOfStation(k)

(* C19: predicted is slope * reading + intercept, not clamped, and the     *)
(* level_name of a station result is the alert level of the predicted      *)
(* value that the result reports.                                          *)
C19_LevelOfReportedPredicted ==
  Returned =>
    \A k \in 1..Len(result.stations) :
      /\ \E i \in Live :
           /\ stations[i].id = result.stations[k].id
           /\ stations[i].target_city = result.stations[k].target_city
           /\ result.stations[k].predicted = PredictedOfStation(i)
      /\ result.stations[k].level_name
           = (IF result.stations[k].predicted < 200 THEN "LOW"
              ELSE IF result.stations[k].predicted < 600 THEN "MODERATE"
              ELSE IF result.stations[k].predicted < 800 THEN "HIGH"
              ELSE IF result.stations[k].predicted < 1200 THEN "VERY HIGH"
              ELSE "EXTREME")

(* C20: a rule2 alert has exactly two trigger names: the first Distant     *)
(* station with reading >= 35 and the first Intermediate station with      *)
(* current and previous reading >= 20, in the order of the city's results. *)
DistantRows(city) ==
  { k \in 1..Len(result.stations) :
      /\ result.stations[k].target_city = city
      /\ result.stations[k].dist > 600
      /\ result.stations[k].pm25 >= 35 }

IntermediateRows(city) ==
  { k \in 1..Len(result.stations) :
      /\ result.stations[k].target_city = city
      /\ result.stations[k].dist >= 200
      /\ result.stations[k].dist <= 600
      /\ result.stations[k].pm25 >= 20
      /\ PreviousSupplied
      /\ result.stations[k].id \in DOMAIN previous_readings.dict
      /\ previous_readings.dict[result.stations[k].id] >= 20 }

FirstOf(rows) == CHOOSE k \in rows : \A m \in rows : k <= m

----------------------------------------------------------------------------
(* The catalogs the loaders have returned *)
Done == { t \in DOMAIN caller : caller[t].pc = "done" }

CatalogIds(cat) == { cat[i].id : i \in 1..Len(cat) }

(* Every station of the catalog reports a reading *)
FullReadings(cat) == [ id \in CatalogIds(cat) |-> RULE1_TRIGGER ]

EvaluatedIds(cat) ==
  LET out == evaluate(cat, FullReadings(cat), [none |-> TRUE, dict |-> EmptyDict])
  IN  { out.stations[j].id : j \in 1..Len(out.stations) }

(* C16: no station whose id is in EXCLUDED_STATION_IDS is in a catalog    *)
(* returned by load_stations or load_all_stations, nor in a cached        *)
(* catalog, whatever the rows of the workbooks; and no such station is in *)
(* the results evaluate computes from a returned catalog.                 *)
C16_DenylistExcluded ==
  /\ \A t \in Done :
       /\ CatalogIds(caller[t].ret) \cap EXCLUDED_STATION_IDS = {}
       /\ EvaluatedIds(caller[t].ret) \cap EXCLUDED_STATION_IDS = {}
  /\ \A k \in DOMAIN station_cache :
       CatalogIds(station_cache[k].value) \cap EXCLUDED_STATION_IDS = {}

(* load_all_stations has returned a catalog with stations of both cities *)
(* while the Toronto sheet holds a denylisted id written with padding    *)
(* and the Montreal sheet one stored as a number                         *)
C16_Witness ==
  \E t \in Done :
    /\ caller[t].op = "_all"
    /\ { caller[t].ret[i].target_city : i \in 1..Len(caller[t].ret) } = CityKeys
    /\ \E k \in 1..Len(workbook["Toronto"].rows) :
         LET cell == workbook["Toronto"].rows[k].id
         IN  /\ cell.kind = "str"
             /\ Joined(cell.text) \notin EXCLUDED_STATION_IDS
             /\ Strip(cell.text) \in EXCLUDED_STATION_IDS
    /\ \E k \in 1..Len(workbook["Montreal"].rows) :
         /\ workbook["Montreal"].rows[k].id.kind = "int"
         /\ ToString(workbook["Montreal"].rows[k].id.num) \in EXCLUDED_STATION_IDS

(* C17: the workbook of a city is read at most once in the process, also *)
(* when several callers make the first access together, and the callers  *)
(* of one loader obtain the same catalog.                                *)
C17_LoadedOnce ==
  /\ \A c \in DOMAIN loads : loads[c] <= 1
  /\ \A t, u \in Done : caller[t].op = caller[u].op => caller[t].ret = caller[u].ret

----------------------------------------------------------------------------
(* The stations that carry a latitude and a longitude, whatever their value *)
BothCoords == { i \in 1..Len(fetch_stations) :
                  fetch_stations[i].lat.some /\ fetch_stations[i].lon.some }

LackingCoords == (1..Len(fetch_stations)) \ BothCoords

BothCoordsIn(city) == { i \in BothCoords : fetch_stations[i].target_city = city }

LeastOf(S) == CHOOSE v \in S : \A w \in S : v <= w
GreatestOf(S) == CHOOSE v \in S : \A w \in S : v >= w

(* The padded box around the stations of the city that have coordinates *)
BoxOf(city) ==
  LET lats == { fetch_stations[i].lat.val : i \in BothCoordsIn(city) }
      lons == { fetch_stations[i].lon.val : i \in BothCoordsIn(city) }
  IN  << LeastOf(lats) - PAD_M, LeastOf(lons) - PAD_M,
         GreatestOf(lats) + PAD_M, GreatestOf(lons) + PAD_M >>

(* C21: a station without latitude or longitude never receives a reading   *)
(* and takes no part in the bounding box of its city; the cities queried   *)
(* are those with a station that has both coordinates, each with the box   *)
(* around these stations; and every station that has both coordinates is   *)
(* matched when an observation of its city is within the radius.           *)
C21_CoordinatesDecideMatching ==
  (Returned /\ ~fetch_out.raised) =>
    /\ \A i \in LackingCoords : fetch_stations[i].id \notin DOMAIN fetch_out.readings
    /\ { fetch_out.queries[k].city : k \in 1..Len(fetch_out.queries) }
         = { fetch_stations[i].target_city : i \in BothCoords }
    /\ \A k \in 1..Len(fetch_out.queries) :
         fetch_out.queries[k].bbox = BoxOf(fetch_out.queries[k].city)
    /\ \A i \in BothCoords :
         WithinRadius(i) => fetch_stations[i].id \in DOMAIN fetch_out.readings

----------------------------------------------------------------------------
(* The distance of the nearest observation of the station's city *)
LeastDistance(i) ==
  LeastOf({ DistanceM(i, k) : k \in Observations(ResponseOf(i)) })

(* The first observation, in the order of the response, at that distance *)
FirstNearest(i) ==
  LeastOf({ k \in Observations(ResponseOf(i)) : DistanceM(i, k) = LeastDistance(i) })

(* C22: the reading of a matched station is the converted AQI of the       *)
(* observation at the least distance from it among those returned for its  *)
(* city, and of the first of them in the returned order when several are   *)
(* at that distance.                                                       *)
C22_NearestFirstWins ==
  (Returned /\ ~fetch_out.raised) =>
    \A i \in Located :
      fetch_stations[i].id \in DOMAIN fetch_out.readings =>
        fetch_out.readings[fetch_stations[i].id]
          = aqi_to_ugm3(ResponseOf(i).entries[FirstNearest(i)].aqi.val)

(* A matched station has two observations at its least distance, with      *)
(* different values, and a farther one before them in the response         *)
C22_Witness ==
  /\ Returned
  /\ ~fetch_out.raised
  /\ \E i \in Located :
       /\ fetch_stations[i].id \in DOMAIN fetch_out.readings
       /\ \E k \in Observations(ResponseOf(i)) :
            /\ k # FirstNearest(i)
            /\ DistanceM(i, k) = LeastDistance(i)
            /\ ResponseOf(i).entries[k].aqi.val
                 # ResponseOf(i).entries[FirstNearest(i)].aqi.val

----------------------------------------------------------------------------
(* The rows of the workbooks, read off the sheets *)
SheetRow(city, k) == workbook[city].rows[k]

RowId(city, k) == Strip(Str(SheetRow(city, k).id))

(* The rows with an id, outside the denylist, whose numbers parse *)
WellFormedRows(city) ==
  { k \in 1..Len(workbook[city].rows) :
      /\ SheetRow(city, k).id.kind # "none"
      /\ RowId(city, k) # ""
      /\ RowId(city, k) \notin EXCLUDED_STATION_IDS
      /\ SheetRow(city, k).numeric_ok }

(* The rows of the coordinate sheet that give a position to the id *)
CoordRowsOf(city, sid) ==
  { k \in 1..Len(workbook[city].coords) :
      /\ workbook[city].coords[k].id.kind # "none"
      /\ Strip(Str(workbook[city].coords[k].id)) = sid
      /\ workbook[city].coords[k].lat.ok
      /\ workbook[city].coords[k].lon.ok }

(* The station a well-formed row stands for, as load_stations (tag "") or *)
(* load_all_stations (tag = the city key) returns it                      *)
ExpectedStation(city, k, tag) ==
  LET found == CoordRowsOf(city, RowId(city, k))
      last == workbook[city].coords[GreatestOf(found)]
  IN  [id |-> RowId(city, k), city_name |-> SheetRow(city, k).city_name,
       distance |-> SheetRow(city, k).distance, tier |-> SheetRow(city, k).tier,
       R10 |-> SheetRow(city, k).R10, slope100 |-> SheetRow(city, k).slope100,
       intercept100 |-> SheetRow(city, k).intercept100, target_city |-> tag,
       lat |-> IF found = {} THEN NoCoord ELSE Coord(last.lat.val),
       lon |-> IF found = {} THEN NoCoord ELSE Coord(last.lon.val)]

(* The stations of the catalog with that tag are the well-formed rows of  *)
(* the city's sheet, each as many times as it is in the sheet             *)
CatalogIsWellFormedRows(cat, city, tag) ==
  LET inCat == { i \in 1..Len(cat) : cat[i].target_city = tag }
      values == { cat[i] : i \in inCat }
                  \cup { ExpectedStation(city, k, tag) : k \in WellFormedRows(city) }
  IN  \A v \in values :
        Cardinality({ i \in inCat : cat[i] = v })
          = Cardinality({ k \in WellFormedRows(city) : ExpectedStation(city, k, tag) = v })

(* C23: a row without station id or with an unparsable numeric field is   *)
(* skipped and the rows after it are still loaded: a returned catalog      *)
(* holds exactly the well-formed rows outside the denylist, each with the *)
(* coordinates the coordinate sheet gives for its id, or with lat = lon = *)
(* None.                                                                  *)
C23_BadRowsSkipped ==
  \A t \in Done :
    IF caller[t].op = "_all"
    THEN \A city \in CityKeys : CatalogIsWellFormedRows(caller[t].ret, city, city)
    ELSE CatalogIsWellFormedRows(caller[t].ret, caller[t].op, "")

(* load_stations has returned one station with coordinates from a sheet   *)
(* whose first row has an unparsable number; and one without coordinates  *)
(* because the row of its id in the coordinate sheet does not parse       *)
C23_Witness ==
  \E t \in Done :
    /\ caller[t].op = "Toronto"
    /\ Len(workbook["Toronto"].rows) = 2
    /\ ~SheetRow("Toronto", 1).numeric_ok
    /\ Len(caller[t].ret) = 1
    /\ caller[t].ret[1].id = RowId("Toronto", 2)
    /\ caller[t].ret[1].lat.some
    /\ caller[t].ret[1].lon.some

----------------------------------------------------------------------------
(* C24: send_alert_notifications pushes to a device only if the level is  *)
(* HIGH, VERY HIGH or EXTREME, the token is active, and the device's city *)
(* list is empty or holds the alerted city; for LOW and MODERATE nothing  *)
(* is pushed and (0, 0) is returned.  A token answered "token invalid" is *)
(* inactive afterwards, and no later alert is pushed to it until it       *)
(* registers again.                                                       *)
C24_PushOnlyToSubscribed ==
  /\ [](\A t \in push_invalid : ~device_tokens[t].is_active)
  /\ [][ push_last'.seq # push_last.seq =>
           /\ \A t \in push_last'.attempted :
                /\ push_last'.level \in {"HIGH", "VERY HIGH", "EXTREME"}
                /\ device_tokens[t].registered
                /\ device_tokens[t].is_active
                /\ \/ device_tokens[t].cities = {}
                   \/ push_last'.city \in device_tokens[t].cities
                /\ t \notin push_invalid
           /\ push_last'.level \in {"LOW", "MODERATE"} =>
                /\ push_last'.attempted = {}
                /\ push_last'.sent = 0
                /\ push_last'.failed = 0
           /\ \A t \in push_last'.invalid : ~device_tokens'[t].is_active ]_vars

(* After a token was answered "token invalid" in an earlier alert, an     *)
(* alert for a city it subscribed to has pushed to another device and     *)
(* not to it                                                              *)
C24_Witness ==
  /\ push_last.level \in SIGNIFICANT_LEVELS
  /\ push_last.invalid = {}
  /\ push_last.attempted # {}
  /\ \E t \in push_invalid :
       /\ t \notin push_last.attempted
       /\ device_tokens[t].platform = "ios"
       /\ push_last.city \in device_tokens[t].cities

----------------------------------------------------------------------------
(* C29: for one API key, in every interleaving of requests, the requests  *)
(* allowed in one window (3600 s from hour_started) are at most the plan  *)
(* limit and requests_this_hour is at most the limit; a rejected request  *)
(* leaves the counters of the key as they were; and a request 3600 s or   *)
(* more after hour_started starts a new window.                           *)
C29_RateLimitHolds ==
  /\ [](\A h \in DOMAIN allowed_in : allowed_in[h] <= RateLimit)
  /\ [](api_key.requests_this_hour <= RateLimit)
  /\ [][ \A c \in DOMAIN request :
           (request[c].pc = "check" /\ request'[c].pc = "idle") =>
             /\ request'[c].outcome = "rejected" => api_key' = api_key
             /\ (request[c].obj.hour_started.some
                   /\ (clock - request[c].obj.hour_started.val) * TickSeconds >= 3600)
                  => /\ request'[c].outcome = "allowed"
                     /\ api_key'.hour_started = [some |-> TRUE, val |-> clock]
                     /\ api_key'.requests_this_hour = 1 ]_vars

----------------------------------------------------------------------------
(* C25: a city decision with alert = true names the rule that fired       *)
(* ("rule1", "rule2" or "rule3"), lists two trigger stations for rule2    *)
(* and one otherwise, each the name of a station of that city with a      *)
(* reading, carries a level other than LOW, and its predicted_pm25 is its *)
(* weighted_pm25.                                                         *)
C25_AlertIsConsistent ==
  Returned =>
    \A city \in DecidedCities :
      Decision(city).alert =>
        /\ Decision(city).rule \in {"rule1", "rule2", "rule3"}
        /\ Len(Decision(city).trigger_stations)
             = (IF Decision(city).rule = "rule2" THEN 2 ELSE 1)
        /\ \A k \in 1..Len(Decision(city).trigger_stations) :
             Decision(city).trigger_stations[k] \in NamesOf(LiveIn(city))
        /\ Decision(city).level_name # "LOW"
        /\ Decision(city).predicted_pm25 = Decision(city).weighted_pm25

(* A rule1 alert of a city where two regional stations qualify *)
C25_Witness ==
  /\ Returned
  /\ \E city \in DecidedCities :
       /\ Decision(city).alert
       /\ Decision(city).rule = "rule1"
       /\ Cardinality(RegionalQualifying(city)) >= 2

----------------------------------------------------------------------------
(* The station of Q that is reported when the rule scans the sorted rows: *)
(* the highest predicted value, and among equal values the first of the   *)
(* input station list                                                     *)
BestOf(Q) ==
  CHOOSE i \in Q :
    \A j \in Q : \/ PredictedOfStation(i) > PredictedOfStation(j)
                 \/ PredictedOfStation(i) = PredictedOfStation(j) /\ i <= j

C26_TieReached ==
  /\ Returned
  /\ \E city \in DecidedCities :
       /\ Decision(city).alert
       /\ Decision(city).rule = "rule1"
       /\ \E i, j \in RegionalQualifying(city) :
            i < j /\ PredictedOfStation(i) = PredictedOfStation(j)

----------------------------------------------------------------------------
(* C27: for every city with a station result, min predicted <=            *)
(* weighted_pm25 <= max_pm25, where max_pm25 is the largest predicted     *)
(* value of the city; with exactly one station result weighted_pm25 is    *)
(* that station's predicted value; and the total weight the aggregator    *)
(* divides by is not zero, every weight being at least 0.1.               *)
C27_WeightedWithinRange ==
  Returned =>
    \A city \in DecidedCities :
      LET rows == CityRows(result.stations, city)
      IN  /\ LiveIn(city) # {}
          /\ \E i \in LiveIn(city) : PredictedOfStation(i) <= Decision(city).weighted_pm25
          /\ \A i \in LiveIn(city) : PredictedOfStation(i) <= Decision(city).max_pm25
          /\ \E i \in LiveIn(city) : PredictedOfStation(i) = Decision(city).max_pm25
          /\ Decision(city).weighted_pm25 <= Decision(city).max_pm25
          /\ Cardinality(LiveIn(city)) = 1 =>
               \A i \in LiveIn(city) : Decision(city).weighted_pm25 = PredictedOfStation(i)
          /\ \A k \in 1..Len(rows) : Weight(rows[k]) >= 10
          /\ WeightTotal(rows) > 0

(* A city with three station results of different predicted values, one   *)
(* of them with R = 0, whose weighted value is strictly between the       *)
(* smallest and the largest                                               *)
C27_Witness ==
  /\ Returned
  /\ \E city \in DecidedCities :
       /\ Cardinality(LiveIn(city)) = 3
       /\ \E i \in LiveIn(city) : stations[i].R10 = 0
       /\ \A i \in LiveIn(city) : PredictedOfStation(i) # Decision(city).weighted_pm25
       /\ \E i \in LiveIn(city) : PredictedOfStation(i) < Decision(city).weighted_pm25
       /\ Decision(city).weighted_pm25 < Decision(city).max_pm25

----------------------------------------------------------------------------
(* C28: in a city decision with alert = true, level_name is the level of  *)
(* the weighted_pm25 the decision reports; and a decision with alert =    *)
(* false of a city where a rule fired reports a weighted_pm25 below 20.   *)
C28_LevelOfReportedWeighted ==
  Returned =>
    \A city \in DecidedCities :
      /\ Decision(city).alert =>
           Decision(city).level_name = get_alert_level(Decision(city).weighted_pm25, 10).name
      /\ (SomeRuleHolds(city) /\ ~Decision(city).alert) =>
           Decision(city).weighted_pm25 < 200

----------------------------------------------------------------------------
(* C30: the merged demo map keeps every city's demo value: after a        *)
(* request for all cities, the readings evaluate was called with give     *)
(* every station id of DEMO_DATA[c] the value DEMO_DATA[c] has for it,    *)
(* for every city c; so every station result of city c carries the        *)
(* reading the city's own demo map has for its id.                        *)
C30_MergedKeepsCityValues ==
  (Returned /\ demo_city = None) =>
    /\ \A c \in DOMAIN DEMO_DATA :
         \A s \in DOMAIN DEMO_DATA[c] :
           s \in DOMAIN readings /\ readings[s] = DEMO_DATA[c][s]
    /\ \A k \in 1..Len(result.stations) :
         LET r == result.stations[k]
         IN  r.id \in DOMAIN DEMO_DATA[r.target_city] =>
               r.pm25 = DEMO_DATA[r.target_city][r.id]

(* The part on the evaluated stations alone *)
C30_ResultsCarryCityValues ==
  (Returned /\ demo_city = None) =>
    \A k \in 1..Len(result.stations) :
      LET r == result.stations[k]
      IN  r.id \in DOMAIN DEMO_DATA[r.target_city] =>
            r.pm25 = DEMO_DATA[r.target_city][r.id]

====
